---- MODULE Spec2Model ----
(***************************************************************************)
(* Keyword extraction / validation / correction workflow of EasyPaper.     *)
(*                                                                         *)
(*   agents/keyword_extractor.py  KeywordExtractorAgent                    *)
(*   agents/validator.py          ValidatorAgent, CorrectorAgent           *)
(*   agents/state.py              MultiAgentWorkflowState                  *)
(*   langgraph_lab/multi_agent.py the graph: edges, should_correct, invoke *)
(*                                and its own node functions               *)
(*                                                                         *)
(* A text (Python str) is a sequence of characters.  The two labels        *)
(* "中文关键词" and "英文关键词" are single characters CN and EN of the text;    *)
(* the full-width punctuation marks are the characters FwColon, FwComma,   *)
(* FwSemi.  A keyword is a text, a keyword list is a sequence of texts.    *)
(***************************************************************************)
EXTENDS Integers, Sequences, FiniteSets, TLC

VARIABLES
    state,        \* the MultiAgentWorkflowState record threaded through the graph
    pc,           \* node the graph runs next: a node name, "END" or "raised"
    steps,        \* super-steps executed by graph.invoke so far
    last,         \* node that ran in the latest super-step ("none" before the first)
    llm_calls,    \* number of calls of BaseAgent.call_llm made in this run
    corrector_calls, \* number of super-steps that ran the corrector node
    vin,          \* input of a direct call of ValidatorAgent._validate_keywords
    vout,         \* its result, [done |-> FALSE] before the call
    llm_raised,   \* whether the latest call of call_llm raised an exception
    lab,          \* run of the graph over the node functions of multi_agent.py
    scoring,      \* one call of PaperScorerAgent.process
    batch,        \* one call of PaperScorerAgent.score_papers
    dedup,        \* remove_duplicates applied once and then to its own result
    runs,         \* two invocations of the workflow, their node steps interleaved
    mcp           \* an MCPConfig and the calls of add_tool and remove_tool on it

vars ==
    <<state, pc, steps, last, llm_calls, corrector_calls, vin, vout, llm_raised, lab,
      scoring, batch, dedup, runs, mcp>>

\* the variables of the scorer, of remove_duplicates, of the two
\* invocations and of MCPConfig
ToolVars == <<scoring, batch, dedup, runs, mcp>>

-----------------------------------------------------------------------------
(* Characters *)

CN == "CN"            \* the label 中文关键词
EN == "EN"            \* the label 英文关键词
Colon == ":"
FwColon == "fw:"      \* full-width colon
Comma == ","
FwComma == "fw,"      \* full-width comma
Semi == ";"
FwSemi == "fw;"       \* full-width semicolon
SP == " "
NL == "nl"            \* line feed

LowerChars == {"a", "b"}
UpperChars == {"A", "L", "M"}
DigitChars == {"1"}

\* str.isspace of one character
IsSpace(c) == c \in {SP, NL}

-----------------------------------------------------------------------------
(* Python str operations *)

RECURSIVE lstrip(_)
lstrip(s) ==
    IF s # <<>> /\ IsSpace(Head(s)) THEN lstrip(Tail(s)) ELSE s

RECURSIVE rstrip(_)
rstrip(s) ==
    IF s # <<>> /\ IsSpace(s[Len(s)]) THEN rstrip(SubSeq(s, 1, Len(s) - 1)) ELSE s

\* str.strip()
strip(s) == rstrip(lstrip(s))

\* str.rstrip(chars)
RECURSIVE rstrip_chars(_, _)
rstrip_chars(s, chars) ==
    IF s # <<>> /\ s[Len(s)] \in chars
    THEN rstrip_chars(SubSeq(s, 1, Len(s) - 1), chars)
    ELSE s

\* str.isupper(): at least one cased character and no lowercase one
isupper(s) ==
    /\ \E i \in 1..Len(s) : s[i] \in UpperChars
    /\ \A i \in 1..Len(s) : s[i] \notin LowerChars

\* len(s.split()): the number of maximal runs of non-whitespace characters
split_words_len(s) ==
    Cardinality({i \in 1..Len(s) :
        /\ ~IsSpace(s[i])
        /\ (i = 1 \/ IsSpace(s[i - 1]))})

\* sep.join(items)
RECURSIVE join(_, _)
join(sep, items) ==
    IF items = <<>> THEN <<>>
    ELSE IF Len(items) = 1 THEN items[1]
    ELSE items[1] \o sep \o join(sep, Tail(items))

\* s.split(sep) for a separator that is one of the characters in seps:
\* the pieces between separators, empty pieces included
RECURSIVE split_on(_, _)
split_on(s, seps) ==
    IF \A i \in 1..Len(s) : s[i] \notin seps THEN <<s>>
    ELSE LET i == CHOOSE j \in 1..Len(s) :
                      /\ s[j] \in seps
                      /\ \A k \in 1..(j - 1) : s[k] \notin seps
         IN  <<SubSeq(s, 1, i - 1)>> \o split_on(SubSeq(s, i + 1, Len(s)), seps)

\* [k.strip() for k in pieces if k.strip()]
RECURSIVE strip_nonempty(_)
strip_nonempty(pieces) ==
    IF pieces = <<>> THEN <<>>
    ELSE LET k == strip(Head(pieces))
         IN  (IF k # <<>> THEN <<k>> ELSE <<>>) \o strip_nonempty(Tail(pieces))

\* the text up to the first line feed: s.split("\n")[0]
first_line(s) ==
    IF \A i \in 1..Len(s) : s[i] # NL THEN s
    ELSE LET i == CHOOSE j \in 1..Len(s) :
                      s[j] = NL /\ \A k \in 1..(j - 1) : s[k] # NL
         IN  SubSeq(s, 1, i - 1)

-----------------------------------------------------------------------------
(* Python None, one reserved value per field type *)

NoneText == <<"None">>          \* None where a str is expected
NoneList == << <<"None">> >>    \* None where a list of str is expected

\* truth value of an Optional[str]
TruthyText(v) == v # NoneText /\ v # <<>>

\* truth value of an Optional[List[str]]
TruthyList(v) == v # NoneList /\ v # <<>>

-----------------------------------------------------------------------------
(* agents/validator.py: ValidatorAgent, the format contract *)

Sources == {"ArXiv", "IEEE", "SciHub", "Google Scholar", "ACL"}

AbbrevMaxLen == 5

\* messages of _validate_keywords; the failing keywords follow the prefix
MsgNoKeywords == <<"no-english-keywords">>
MsgNotAbbrev == <<"not-abbreviations:", SP>>
MsgNotFull == <<"not-full-phrases:", SP>>
MsgOk == <<"format-ok">>

\* mutant: the length test excludes the boundary
_is_abbreviation_strict(keyword) ==
    LET kw == strip(keyword)
    IN  Len(kw) < AbbrevMaxLen \/ isupper(kw)

_is_abbreviation(keyword) ==
    LET kw == strip(keyword)
    IN  Len(kw) <= AbbrevMaxLen \/ isupper(kw)

\* mutant: the upper-case exclusion is dropped
_is_full_phrase_any_case(keyword) ==
    LET kw == strip(keyword)
    IN  split_words_len(kw) > 1 \/ Len(kw) > AbbrevMaxLen

_is_full_phrase(keyword) ==
    LET kw == strip(keyword)
    IN  split_words_len(kw) > 1 \/ (Len(kw) > AbbrevMaxLen /\ ~isupper(kw))

\* [kw for kw in english_keywords if not self._is_abbreviation(kw)]
non_abbrev(english_keywords) ==
    SelectSeq(english_keywords, LAMBDA kw : ~_is_abbreviation(kw))

\* [kw for kw in english_keywords if not self._is_full_phrase(kw)]
non_full(english_keywords) ==
    SelectSeq(english_keywords, LAMBDA kw : ~_is_full_phrase(kw))

\* mutant: the test for an empty list is missing
_validate_keywords_no_empty_test(english_keywords, paper_source) ==
    IF paper_source \in {"ArXiv", "IEEE"} /\ non_abbrev(english_keywords) # <<>>
    THEN [is_valid |-> FALSE,
          message |-> MsgNotAbbrev \o join(<<Comma, SP>>, non_abbrev(english_keywords))]
    ELSE IF paper_source = "SciHub" /\ non_full(english_keywords) # <<>>
    THEN [is_valid |-> FALSE,
          message |-> MsgNotFull \o join(<<Comma, SP>>, non_full(english_keywords))]
    ELSE [is_valid |-> TRUE, message |-> MsgOk]

\* mutant: every source but SciHub is held to the abbreviation contract
_validate_keywords_abbrev_by_default(english_keywords, paper_source) ==
    IF ~TruthyList(english_keywords)
    THEN [is_valid |-> FALSE, message |-> MsgNoKeywords]
    ELSE IF paper_source # "SciHub" /\ non_abbrev(english_keywords) # <<>>
    THEN [is_valid |-> FALSE,
          message |-> MsgNotAbbrev \o join(<<Comma, SP>>, non_abbrev(english_keywords))]
    ELSE IF paper_source = "SciHub" /\ non_full(english_keywords) # <<>>
    THEN [is_valid |-> FALSE,
          message |-> MsgNotFull \o join(<<Comma, SP>>, non_full(english_keywords))]
    ELSE [is_valid |-> TRUE, message |-> MsgOk]

\* returns (is_valid, message)
_validate_keywords(english_keywords, paper_source) ==
    IF ~TruthyList(english_keywords)
    THEN [is_valid |-> FALSE, message |-> MsgNoKeywords]
    ELSE IF paper_source \in {"ArXiv", "IEEE"} /\ non_abbrev(english_keywords) # <<>>
    THEN [is_valid |-> FALSE,
          message |-> MsgNotAbbrev \o join(<<Comma, SP>>, non_abbrev(english_keywords))]
    ELSE IF paper_source = "SciHub" /\ non_full(english_keywords) # <<>>
    THEN [is_valid |-> FALSE,
          message |-> MsgNotFull \o join(<<Comma, SP>>, non_full(english_keywords))]
    ELSE [is_valid |-> TRUE, message |-> MsgOk]

-----------------------------------------------------------------------------
(* agents/keyword_extractor.py: the labelled-line parser *)

\* positions i of text where label is followed by a half- or full-width colon
label_positions(text, label) ==
    {i \in 1..(Len(text) - 1) : text[i] = label /\ text[i + 1] \in {Colon, FwColon}}

\* re.search(label[:：]\s*(.+?)(?:\n|$), response): <<matched, group(1)>>.
\* The search takes the leftmost label; \s* is greedy and also skips line
\* feeds; the group is at least one character and stops before the next line
\* feed.  When only white space follows the colon, \s* gives characters
\* back to the group as long as the group does not start with a line feed.
re_search_label(text, label) ==
    LET ok(i) ==
            LET rest == SubSeq(text, i + 2, Len(text))
            IN  \E j \in 1..Len(rest) : rest[j] # NL /\ \A k \in 1..(j - 1) : IsSpace(rest[k])
        hits == {i \in label_positions(text, label) : ok(i)}
    IN  IF hits = {} THEN [matched |-> FALSE, group |-> <<>>]
        ELSE LET i == CHOOSE h \in hits : \A g \in hits : h <= g
                 rest == SubSeq(text, i + 2, Len(text))
                 \* the greedy \s*: the longest white-space prefix that still
                 \* leaves a character other than a line feed for the group
                 skip == CHOOSE j \in 0..(Len(rest) - 1) :
                             /\ \A k \in 1..j : IsSpace(rest[k])
                             /\ rest[j + 1] # NL
                             /\ \A j2 \in (j + 1)..(Len(rest) - 1) :
                                    ~(/\ \A k \in 1..j2 : IsSpace(rest[k])
                                      /\ rest[j2 + 1] # NL)
             IN  [matched |-> TRUE,
                  group |-> first_line(SubSeq(rest, skip + 1, Len(rest)))]

Separators == {Comma, FwComma, Semi, FwSemi}

\* one language's keywords: strip, rstrip(';；'), re.split on [,，;；],
\* strip each piece and drop the empty ones
parse_line(response, label) ==
    LET m == re_search_label(response, label)
    IN  IF ~m.matched THEN <<>>
        ELSE strip_nonempty(
                 split_on(rstrip_chars(strip(m.group), {Semi, FwSemi}), Separators))

\* returns (chinese_keywords, english_keywords)
_parse_keywords(response) ==
    [chinese |-> parse_line(response, CN), english |-> parse_line(response, EN)]

-----------------------------------------------------------------------------
(* Inputs: keywords, user keyword lists, language-model outcomes *)

kLLM == <<"L", "L", "M">>                       \* short, upper case
kUpper6 == <<"L", "L", "M", "L", "L", "M">>     \* long, upper case
kLower6 == <<"a", "b", "a", "b", "a", "b">>     \* long, lower case, one word
kTwoWords == <<"a", SP, "b">>                   \* short, two words
kPhrase == <<"M", "a", "b", SP, "a", "b">>      \* long, two words
kPadded == <<SP, "a", "b", "a", "b", "a", SP>>  \* five characters between blanks
kDigits == <<"1", "1", "1", "1", "1", "1">>     \* long, no cased character
kZh == <<"zh">>                                 \* a Chinese keyword

ProbeKeywords == {kLLM, kUpper6, kLower6, kTwoWords, kPhrase, kPadded, kDigits}

\* largest number of keywords in a user-supplied list
MaxKws == 2

RECURSIVE ListsUpTo(_, _)
ListsUpTo(S, n) ==
    IF n = 0 THEN {<<>>}
    ELSE LET shorter == ListsUpTo(S, n - 1)
         IN  shorter \cup {Append(l, x) : l \in shorter, x \in S}

\* keywords a user may supply to a workflow run
UserKeywords == {kLLM, kPhrase, kPadded}

\* user_keywords: None, [] or a list of keywords
UserKeywordInputs == {NoneList} \cup ListsUpTo(UserKeywords, MaxKws)

\* messages: the contents of the HumanMessage list, possibly empty
MessageInputs == {<<>>, <<"need">>}

\* texts the language model may answer with
RespAbbrev ==
    <<CN, Colon, SP>> \o kZh \o <<Comma, SP>> \o kZh \o <<NL, EN, Colon, SP>>
        \o kLLM \o <<Comma, SP>> \o kUpper6
RespFull ==
    <<CN, Colon, SP>> \o kZh \o <<Semi, NL, EN, Colon, SP>>
        \o kPhrase \o <<Comma, SP>> \o kLower6 \o <<Semi>>
RespFullWidth ==
    <<CN, FwColon>> \o kZh \o <<FwComma>> \o kZh \o <<NL, EN, FwColon>>
        \o kLLM \o <<FwComma>> \o kLower6 \o <<FwSemi>>
RespNoEnglish == <<CN, Colon, SP>> \o kZh
RespEmpty == <<>>
RespOnlySeparators == <<EN, Colon, SP, FwComma, FwSemi>>
RespTwoLabels == <<EN, Colon, SP, Semi, NL, EN, Colon, SP>> \o kLLM
RespNextLine == <<EN, Colon, NL>> \o kLower6 \o <<NL>> \o kLLM

Responses ==
    {RespAbbrev, RespFull, RespFullWidth, RespNoEnglish, RespEmpty,
     RespOnlySeparators, RespTwoLabels, RespNextLine}

\* outcome of one call of call_llm: a response text, or an exception
LlmOutcomes ==
    {[raised |-> FALSE, text |-> r] : r \in Responses}
        \cup {[raised |-> TRUE, text |-> <<>>]}

-----------------------------------------------------------------------------
(* agents/state.py *)

NoneStr == "None"

create_initial_state(messages, paper_source, user_keywords) ==
    [messages |-> messages,
     paper_source |-> paper_source,
     user_keywords |-> user_keywords,
     extracted_keywords |-> NoneText,
     chinese_keywords |-> NoneList,
     english_keywords |-> NoneList,
     validation_result |-> NoneText,
     need_correction |-> FALSE,
     error |-> FALSE,
     error_message |-> NoneStr,
     current_step |-> "extract",
     retry_count |-> 0]

-----------------------------------------------------------------------------
(* agents/keyword_extractor.py: KeywordExtractorAgent.process *)

ErrNoMessage == "no-user-message"
ErrExtract == "extraction-failed"
ErrCorrect == "correction-failed"

\* mutant: the user-supplied keywords do not bypass the model call
extractor_process_no_bypass(s, outcome) ==
    IF s.messages = <<>>
    THEN [state |-> [s EXCEPT !.error = TRUE,
                              !.error_message = ErrNoMessage,
                              !.current_step = "complete"],
          called |-> FALSE]
    ELSE IF outcome.raised
    THEN [state |-> [s EXCEPT !.error = TRUE,
                              !.error_message = ErrExtract,
                              !.current_step = "complete"],
          called |-> TRUE]
    ELSE [state |-> [s EXCEPT !.chinese_keywords = _parse_keywords(outcome.text).chinese,
                              !.english_keywords = _parse_keywords(outcome.text).english,
                              !.extracted_keywords = outcome.text,
                              !.error = FALSE,
                              !.error_message = NoneStr,
                              !.current_step = "validate"],
          called |-> TRUE]

\* mutant: a failed model call leaves current_step as it came in
extractor_process_failure_keeps_step(s, outcome) ==
    IF s.messages = <<>>
    THEN [state |-> [s EXCEPT !.error = TRUE,
                              !.error_message = ErrNoMessage,
                              !.current_step = "complete"],
          called |-> FALSE]
    ELSE IF TruthyList(s.user_keywords)
    THEN [state |-> [s EXCEPT !.english_keywords = s.user_keywords,
                              !.extracted_keywords =
                                  <<EN, Colon, SP>> \o join(<<Comma, SP>>, s.user_keywords),
                              !.error = FALSE,
                              !.current_step = "validate"],
          called |-> FALSE]
    ELSE IF outcome.raised
    THEN [state |-> [s EXCEPT !.error = TRUE,
                              !.error_message = ErrExtract],
          called |-> TRUE]
    ELSE [state |-> [s EXCEPT !.chinese_keywords = _parse_keywords(outcome.text).chinese,
                              !.english_keywords = _parse_keywords(outcome.text).english,
                              !.extracted_keywords = outcome.text,
                              !.error = FALSE,
                              !.error_message = NoneStr,
                              !.current_step = "validate"],
          called |-> TRUE]

\* the new state, and whether call_llm was called
extractor_process(s, outcome) ==
    IF s.messages = <<>>
    THEN [state |-> [s EXCEPT !.error = TRUE,
                              !.error_message = ErrNoMessage,
                              !.current_step = "complete"],
          called |-> FALSE]
    ELSE IF TruthyList(s.user_keywords)
    THEN [state |-> [s EXCEPT !.english_keywords = s.user_keywords,
                              !.extracted_keywords =
                                  <<EN, Colon, SP>> \o join(<<Comma, SP>>, s.user_keywords),
                              !.error = FALSE,
                              !.current_step = "validate"],
          called |-> FALSE]
    ELSE IF outcome.raised
    THEN [state |-> [s EXCEPT !.error = TRUE,
                              !.error_message = ErrExtract,
                              !.current_step = "complete"],
          called |-> TRUE]
    ELSE [state |-> [s EXCEPT !.chinese_keywords = _parse_keywords(outcome.text).chinese,
                              !.english_keywords = _parse_keywords(outcome.text).english,
                              !.extracted_keywords = outcome.text,
                              !.error = FALSE,
                              !.error_message = NoneStr,
                              !.current_step = "validate"],
          called |-> TRUE]

-----------------------------------------------------------------------------
(* agents/validator.py: ValidatorAgent.process, CorrectorAgent.process *)

MsgSkipped == <<"validation-skipped">>
MsgCorrected == <<"corrected">>

\* "英文关键词:" in extracted, with the half-width colon only
has_english_label(extracted) ==
    \E i \in 1..(Len(extracted) - 1) : extracted[i] = EN /\ extracted[i + 1] = Colon

\* the keywords of the old format: the text after the last "英文关键词:", its
\* first line, stripped, without trailing semicolons, split on the
\* half-width comma only
legacy_english_keywords(extracted) ==
    LET i == CHOOSE j \in 1..(Len(extracted) - 1) :
                 /\ extracted[j] = EN /\ extracted[j + 1] = Colon
                 /\ \A k \in (j + 1)..(Len(extracted) - 1) :
                        ~(extracted[k] = EN /\ extracted[k + 1] = Colon)
        en_part == SubSeq(extracted, i + 2, Len(extracted))
        line == rstrip_chars(strip(first_line(en_part)), {Semi, FwSemi})
    IN  strip_nonempty(split_on(line, {Comma}))

\* mutant: the returned state does not carry chinese_keywords over
validated_drops_chinese(s) ==
    LET english_keywords ==
            IF /\ ~TruthyList(s.english_keywords)
               /\ TruthyText(s.extracted_keywords)
               /\ has_english_label(s.extracted_keywords)
            THEN legacy_english_keywords(s.extracted_keywords)
            ELSE s.english_keywords
        v == _validate_keywords(english_keywords, s.paper_source)
    IN  [s EXCEPT !.english_keywords = english_keywords,
                  !.chinese_keywords = NoneList,
                  !.validation_result = v.message,
                  !.need_correction = ~v.is_valid,
                  !.current_step = IF ~v.is_valid THEN "correct" ELSE "complete"]

\* mutant: the defaulted paper_source is written back
validated_default_source(s) ==
    LET english_keywords ==
            IF /\ ~TruthyList(s.english_keywords)
               /\ TruthyText(s.extracted_keywords)
               /\ has_english_label(s.extracted_keywords)
            THEN legacy_english_keywords(s.extracted_keywords)
            ELSE s.english_keywords
        v == _validate_keywords(english_keywords, s.paper_source)
    IN  [s EXCEPT !.english_keywords = english_keywords,
                  !.paper_source = "ArXiv",
                  !.validation_result = v.message,
                  !.need_correction = ~v.is_valid,
                  !.current_step = IF ~v.is_valid THEN "correct" ELSE "complete"]

\* the validation proper: the path of process for a state without error
validated(s) ==
    LET english_keywords ==
            IF /\ ~TruthyList(s.english_keywords)
               /\ TruthyText(s.extracted_keywords)
               /\ has_english_label(s.extracted_keywords)
            THEN legacy_english_keywords(s.extracted_keywords)
            ELSE s.english_keywords
        v == _validate_keywords(english_keywords, s.paper_source)
    IN  [s EXCEPT !.english_keywords = english_keywords,
                  !.validation_result = v.message,
                  !.need_correction = ~v.is_valid,
                  !.current_step = IF ~v.is_valid THEN "correct" ELSE "complete"]

\* mutant: the error path leaves need_correction as it came in
validator_process_keep(s) ==
    IF s.error
    THEN [s EXCEPT !.current_step = "complete"]
    ELSE validated(s)

\* mutant: the validation runs although the state carries an error
validator_process_no_skip(s) == validated(s)

validator_process(s) ==
    IF s.error
    THEN [s EXCEPT !.validation_result = MsgSkipped,
                   !.need_correction = FALSE,
                   !.current_step = "complete"]
    ELSE validated(s)

\* mutant: a successful correction leaves need_correction set
corrector_process_keep(s, outcome) ==
    IF ~s.need_correction
    THEN [state |-> s, called |-> FALSE]
    ELSE IF outcome.raised
    THEN [state |-> [s EXCEPT !.error = TRUE,
                              !.error_message = ErrCorrect,
                              !.current_step = "complete"],
          called |-> TRUE]
    ELSE [state |-> [s EXCEPT !.chinese_keywords = _parse_keywords(outcome.text).chinese,
                              !.english_keywords = _parse_keywords(outcome.text).english,
                              !.extracted_keywords = outcome.text,
                              !.validation_result = MsgCorrected,
                              !.retry_count = s.retry_count + 1,
                              !.current_step = "validate"],
          called |-> TRUE]

\* mutant: a successful correction is not counted
corrector_process_uncounted(s, outcome) ==
    IF ~s.need_correction
    THEN [state |-> s, called |-> FALSE]
    ELSE IF outcome.raised
    THEN [state |-> [s EXCEPT !.error = TRUE,
                              !.error_message = ErrCorrect,
                              !.current_step = "complete"],
          called |-> TRUE]
    ELSE [state |-> [s EXCEPT !.chinese_keywords = _parse_keywords(outcome.text).chinese,
                              !.english_keywords = _parse_keywords(outcome.text).english,
                              !.extracted_keywords = outcome.text,
                              !.validation_result = MsgCorrected,
                              !.need_correction = FALSE,
                              !.current_step = "validate"],
          called |-> TRUE]

\* mutant: a failed correction is counted as well
corrector_process_counts_failure(s, outcome) ==
    IF ~s.need_correction
    THEN [state |-> s, called |-> FALSE]
    ELSE IF outcome.raised
    THEN [state |-> [s EXCEPT !.error = TRUE,
                              !.error_message = ErrCorrect,
                              !.retry_count = s.retry_count + 1,
                              !.current_step = "complete"],
          called |-> TRUE]
    ELSE [state |-> [s EXCEPT !.chinese_keywords = _parse_keywords(outcome.text).chinese,
                              !.english_keywords = _parse_keywords(outcome.text).english,
                              !.extracted_keywords = outcome.text,
                              !.validation_result = MsgCorrected,
                              !.need_correction = FALSE,
                              !.retry_count = s.retry_count + 1,
                              !.current_step = "validate"],
          called |-> TRUE]

\* mutant: the corrector gives up by itself at the configured ceiling
corrector_process_capped(s, outcome) ==
    IF ~s.need_correction \/ s.retry_count >= 10
    THEN [state |-> s, called |-> FALSE]
    ELSE IF outcome.raised
    THEN [state |-> [s EXCEPT !.error = TRUE,
                              !.error_message = ErrCorrect,
                              !.current_step = "complete"],
          called |-> TRUE]
    ELSE [state |-> [s EXCEPT !.chinese_keywords = _parse_keywords(outcome.text).chinese,
                              !.english_keywords = _parse_keywords(outcome.text).english,
                              !.extracted_keywords = outcome.text,
                              !.validation_result = MsgCorrected,
                              !.need_correction = FALSE,
                              !.retry_count = s.retry_count + 1,
                              !.current_step = "validate"],
          called |-> TRUE]

\* mutant: the guard on need_correction is missing
corrector_process_unguarded(s, outcome) ==
    IF outcome.raised
    THEN [state |-> [s EXCEPT !.error = TRUE,
                              !.error_message = ErrCorrect,
                              !.current_step = "complete"],
          called |-> TRUE]
    ELSE [state |-> [s EXCEPT !.chinese_keywords = _parse_keywords(outcome.text).chinese,
                              !.english_keywords = _parse_keywords(outcome.text).english,
                              !.extracted_keywords = outcome.text,
                              !.validation_result = MsgCorrected,
                              !.need_correction = FALSE,
                              !.retry_count = s.retry_count + 1,
                              !.current_step = "validate"],
          called |-> TRUE]

\* the new state, and whether call_llm was called
corrector_process(s, outcome) ==
    IF ~s.need_correction
    THEN [state |-> s, called |-> FALSE]
    ELSE IF outcome.raised
    THEN [state |-> [s EXCEPT !.error = TRUE,
                              !.error_message = ErrCorrect,
                              !.current_step = "complete"],
          called |-> TRUE]
    ELSE [state |-> [s EXCEPT !.chinese_keywords = _parse_keywords(outcome.text).chinese,
                              !.english_keywords = _parse_keywords(outcome.text).english,
                              !.extracted_keywords = outcome.text,
                              !.validation_result = MsgCorrected,
                              !.need_correction = FALSE,
                              !.retry_count = s.retry_count + 1,
                              !.current_step = "validate"],
          called |-> TRUE]

-----------------------------------------------------------------------------
(* agents/paper_scorer.py: PaperScorerAgent *)

\* the labels "总评分", "关键词得分", "语义得分", "理由": one character each
TotalLabel == "TOTAL"
KeywordLabel == "KEYWORD"
SemanticLabel == "SEMANTIC"
ReasonLabel == "REASON"

Digits == <<"0", "1", "2", "3", "4", "5", "6", "7", "8", "9">>

IsDigit(c) == \E n \in 1..Len(Digits) : Digits[n] = c

digit_value(c) == (CHOOSE n \in 1..Len(Digits) : Digits[n] = c) - 1

\* int(s) of a string of decimal digits
RECURSIVE int(_)
int(ds) ==
    IF ds = <<>> THEN 0
    ELSE int(SubSeq(ds, 1, Len(ds) - 1)) * 10 + digit_value(ds[Len(ds)])

min(a, b) == IF a <= b THEN a ELSE b
max(a, b) == IF a >= b THEN a ELSE b
abs(a) == IF a >= 0 THEN a ELSE 0 - a

\* re.search(label[:：]\s*(\d+), response): the leftmost label that is
\* followed by a colon, any white space and a digit; the group is the whole
\* run of digits
re_search_digits(text, label) ==
    LET start(i) ==
            CHOOSE j \in (i + 2)..(Len(text) + 1) :
                /\ \A k \in (i + 2)..(j - 1) : IsSpace(text[k])
                /\ (j = Len(text) + 1 \/ ~IsSpace(text[j]))
        ok(i) == start(i) <= Len(text) /\ IsDigit(text[start(i)])
        hits == {i \in label_positions(text, label) : ok(i)}
    IN  IF hits = {} THEN [matched |-> FALSE, group |-> <<>>]
        ELSE LET i == CHOOSE h \in hits : \A g \in hits : h <= g
                 b == start(i)
                 e == CHOOSE j \in b..Len(text) :
                          /\ \A k \in b..j : IsDigit(text[k])
                          /\ (j = Len(text) \/ ~IsDigit(text[j + 1]))
             IN  [matched |-> TRUE, group |-> SubSeq(text, b, e)]

\* the values _parse_scores starts from
DefaultTotal == 10
DefaultKeyword == 5
DefaultSemantic == 5

\* min(20, max(1, n)) and min(10, max(1, n))
MinScore == 1
MaxTotal == 20
MaxPart == 10

\* the largest difference between the declared total and the sum of the
\* parts that leaves the declared total in place
MaxDeviation == 2

\* mutant: the declared total is overridden from a difference of 2 on
_parse_scores_eager(response) ==
    LET total_match == re_search_digits(response, TotalLabel)
        keyword_match == re_search_digits(response, KeywordLabel)
        semantic_match == re_search_digits(response, SemanticLabel)
        reason_match == re_search_label(response, ReasonLabel)
        total_score == IF total_match.matched
                       THEN min(MaxTotal, max(MinScore, int(total_match.group)))
                       ELSE DefaultTotal
        keyword_score == IF keyword_match.matched
                         THEN min(MaxPart, max(MinScore, int(keyword_match.group)))
                         ELSE DefaultKeyword
        semantic_score == IF semantic_match.matched
                          THEN min(MaxPart, max(MinScore, int(semantic_match.group)))
                          ELSE DefaultSemantic
        calculated_total == keyword_score + semantic_score
    IN  [total_score |-> IF abs(total_score - calculated_total) >= MaxDeviation
                         THEN calculated_total ELSE total_score,
         keyword_score |-> keyword_score,
         semantic_score |-> semantic_score,
         reasoning |-> IF reason_match.matched THEN strip(reason_match.group) ELSE <<>>]

\* mutant: a label missing from the response leaves the score 0
_parse_scores_zero_defaults(response) ==
    LET total_match == re_search_digits(response, TotalLabel)
        keyword_match == re_search_digits(response, KeywordLabel)
        semantic_match == re_search_digits(response, SemanticLabel)
        reason_match == re_search_label(response, ReasonLabel)
        total_score == IF total_match.matched
                       THEN min(MaxTotal, max(MinScore, int(total_match.group)))
                       ELSE 0
        keyword_score == IF keyword_match.matched
                         THEN min(MaxPart, max(MinScore, int(keyword_match.group)))
                         ELSE 0
        semantic_score == IF semantic_match.matched
                          THEN min(MaxPart, max(MinScore, int(semantic_match.group)))
                          ELSE 0
        calculated_total == keyword_score + semantic_score
    IN  [total_score |-> IF abs(total_score - calculated_total) > MaxDeviation
                         THEN calculated_total ELSE total_score,
         keyword_score |-> keyword_score,
         semantic_score |-> semantic_score,
         reasoning |-> IF reason_match.matched THEN strip(reason_match.group) ELSE <<>>]

\* mutant: the scores are clamped from below only
_parse_scores_no_ceiling(response) ==
    LET total_match == re_search_digits(response, TotalLabel)
        keyword_match == re_search_digits(response, KeywordLabel)
        semantic_match == re_search_digits(response, SemanticLabel)
        reason_match == re_search_label(response, ReasonLabel)
        total_score == IF total_match.matched
                       THEN max(MinScore, int(total_match.group))
                       ELSE DefaultTotal
        keyword_score == IF keyword_match.matched
                         THEN max(MinScore, int(keyword_match.group))
                         ELSE DefaultKeyword
        semantic_score == IF semantic_match.matched
                          THEN max(MinScore, int(semantic_match.group))
                          ELSE DefaultSemantic
        calculated_total == keyword_score + semantic_score
    IN  [total_score |-> IF abs(total_score - calculated_total) > MaxDeviation
                         THEN calculated_total ELSE total_score,
         keyword_score |-> keyword_score,
         semantic_score |-> semantic_score,
         reasoning |-> IF reason_match.matched THEN strip(reason_match.group) ELSE <<>>]

\* returns (total, keyword, semantic, reasoning)
_parse_scores(response) ==
    LET total_match == re_search_digits(response, TotalLabel)
        keyword_match == re_search_digits(response, KeywordLabel)
        semantic_match == re_search_digits(response, SemanticLabel)
        reason_match == re_search_label(response, ReasonLabel)
        total_score == IF total_match.matched
                       THEN min(MaxTotal, max(MinScore, int(total_match.group)))
                       ELSE DefaultTotal
        keyword_score == IF keyword_match.matched
                         THEN min(MaxPart, max(MinScore, int(keyword_match.group)))
                         ELSE DefaultKeyword
        semantic_score == IF semantic_match.matched
                          THEN min(MaxPart, max(MinScore, int(semantic_match.group)))
                          ELSE DefaultSemantic
        calculated_total == keyword_score + semantic_score
    IN  [total_score |-> IF abs(total_score - calculated_total) > MaxDeviation
                         THEN calculated_total ELSE total_score,
         keyword_score |-> keyword_score,
         semantic_score |-> semantic_score,
         reasoning |-> IF reason_match.matched THEN strip(reason_match.group) ELSE <<>>]

ReasonNoAbstract == <<"no-abstract">>
ReasonFailed == <<"scoring-failed">>

\* PaperScoringState(...) as score_papers builds it
PaperScoringState(user_requirement, paper_abstract, keywords) ==
    [user_requirement |-> user_requirement,
     paper_abstract |-> paper_abstract,
     keywords |-> keywords,
     total_score |-> 0,
     keyword_score |-> 0,
     semantic_score |-> 0,
     reasoning |-> NoneText]

\* mutant: an empty abstract is sent to the model like any other
scorer_process_no_guard(s, outcome) ==
    IF outcome.raised
    THEN [state |-> [s EXCEPT !.total_score = 0,
                              !.keyword_score = 0,
                              !.semantic_score = 0,
                              !.reasoning = ReasonFailed],
          called |-> TRUE]
    ELSE LET r == _parse_scores(outcome.text)
         IN  [state |-> [s EXCEPT !.total_score = r.total_score,
                                  !.keyword_score = r.keyword_score,
                                  !.semantic_score = r.semantic_score,
                                  !.reasoning = r.reasoning],
              called |-> TRUE]

\* mutant: a failed model call leaves the default scores of _parse_scores
scorer_process_default_on_failure(s, outcome) ==
    IF ~TruthyText(s.paper_abstract)
    THEN [state |-> [s EXCEPT !.total_score = 0,
                              !.keyword_score = 0,
                              !.semantic_score = 0,
                              !.reasoning = ReasonNoAbstract],
          called |-> FALSE]
    ELSE IF outcome.raised
    THEN [state |-> [s EXCEPT !.total_score = DefaultTotal,
                              !.keyword_score = DefaultKeyword,
                              !.semantic_score = DefaultSemantic,
                              !.reasoning = ReasonFailed],
          called |-> TRUE]
    ELSE LET r == _parse_scores(outcome.text)
         IN  [state |-> [s EXCEPT !.total_score = r.total_score,
                                  !.keyword_score = r.keyword_score,
                                  !.semantic_score = r.semantic_score,
                                  !.reasoning = r.reasoning],
              called |-> TRUE]

\* PaperScorerAgent.process: the new state, and whether call_llm was called
scorer_process(s, outcome) ==
    IF ~TruthyText(s.paper_abstract)
    THEN [state |-> [s EXCEPT !.total_score = 0,
                              !.keyword_score = 0,
                              !.semantic_score = 0,
                              !.reasoning = ReasonNoAbstract],
          called |-> FALSE]
    ELSE IF outcome.raised
    THEN [state |-> [s EXCEPT !.total_score = 0,
                              !.keyword_score = 0,
                              !.semantic_score = 0,
                              !.reasoning = ReasonFailed],
          called |-> TRUE]
    ELSE LET r == _parse_scores(outcome.text)
         IN  [state |-> [s EXCEPT !.total_score = r.total_score,
                                  !.keyword_score = r.keyword_score,
                                  !.semantic_score = r.semantic_score,
                                  !.reasoning = r.reasoning],
              called |-> TRUE]

\* a key the dict of a paper does not have
AbsentText == <<"Absent">>

\* paper.get("abstract", paper.get("summary", ""))
paper_abstract_of(paper) ==
    IF paper.abstract # AbsentText THEN paper.abstract
    ELSE IF paper.summary # AbsentText THEN paper.summary
    ELSE <<>>

\* {**paper, "score": ..., "keyword_score": ..., "semantic_score": ...,
\*  "score_reasoning": ...}
paper_with_score(paper, result) ==
    [id |-> paper.id,
     abstract |-> paper.abstract,
     summary |-> paper.summary,
     score |-> result.total_score,
     keyword_score |-> result.keyword_score,
     semantic_score |-> result.semantic_score,
     score_reasoning |-> result.reasoning]

\* mutant: papers of equal score come out in reverse input order
sort_by_score_reversing_ties(papers) ==
    LET n == Len(papers)
        place(i) == Cardinality({j \in 1..n : papers[j].score > papers[i].score})
                        + Cardinality({j \in i..n : papers[j].score = papers[i].score})
    IN  [p \in 1..n |-> papers[CHOOSE i \in 1..n : place(i) = p]]

\* scored_papers.sort(key=lambda x: x["score"], reverse=True): list.sort is
\* stable, with reverse=True as well, so a paper comes after the papers of
\* a higher score and after the papers of its own score that precede it
sort_by_score(papers) ==
    LET n == Len(papers)
        place(i) == Cardinality({j \in 1..n : papers[j].score > papers[i].score})
                        + Cardinality({j \in 1..i : papers[j].score = papers[i].score})
    IN  [p \in 1..n |-> papers[CHOOSE i \in 1..n : place(i) = p]]

\* mutant: a paper for which no model call is made is left out
RECURSIVE score_loop_skipping(_, _, _, _, _, _, _)
score_loop_skipping(user_requirement, papers, keywords, outcomes, i, scored_papers, calls) ==
    IF i > Len(papers) THEN [papers |-> scored_papers, calls |-> calls]
    ELSE LET abstract == paper_abstract_of(papers[i])
             result == scorer_process(PaperScoringState(user_requirement, abstract, keywords),
                                      outcomes[i])
         IN  score_loop_skipping(
                 user_requirement, papers, keywords, outcomes, i + 1,
                 IF result.called
                 THEN Append(scored_papers, paper_with_score(papers[i], result.state))
                 ELSE scored_papers,
                 calls + (IF result.called THEN 1 ELSE 0))

\* the loop over papers[i..]: scored_papers as it grows, and the number of
\* calls of call_llm so far; outcomes[i] is the outcome of the model call
\* made for papers[i], if one is made
RECURSIVE score_loop(_, _, _, _, _, _, _)
score_loop(user_requirement, papers, keywords, outcomes, i, scored_papers, calls) ==
    IF i > Len(papers) THEN [papers |-> scored_papers, calls |-> calls]
    ELSE LET abstract == paper_abstract_of(papers[i])
             result == scorer_process(PaperScoringState(user_requirement, abstract, keywords),
                                      outcomes[i])
         IN  score_loop(user_requirement, papers, keywords, outcomes, i + 1,
                        Append(scored_papers, paper_with_score(papers[i], result.state)),
                        calls + (IF result.called THEN 1 ELSE 0))

\* the sorted list, and the number of calls of call_llm: the list is built
\* by the loop, then sorted
score_papers(user_requirement, papers, keywords, outcomes) ==
    CHOOSE ranked \in
        {[papers |-> sort_by_score(scored.papers), calls |-> scored.calls] :
            scored \in {score_loop(user_requirement, papers, keywords, outcomes, 1, <<>>, 0)}} :
        TRUE

-----------------------------------------------------------------------------
(* auxiliary/help_fun_1.py: remove_duplicates *)

allowed_sources == {"ArXiv", "IEEE", "SciHub"}

\* An article is [ident, title]: ident is the value of the field the source
\* is deduplicated by (pdf_url, 'paper_url', 'pmid'); NoId stands for a
\* pdf_url of None and for a dict without the key.
NoId == "NoId"

\* article['paper_url'] raises KeyError without the key; article.pdf_url
\* and article.get("pmid") give None
entry_id_raises(article, data_source) == data_source = "IEEE" /\ article.ident = NoId

\* the loop over articles[i..]: seen and unique_articles as they grow
RECURSIVE dedup_loop(_, _, _, _)
dedup_loop(articles, i, seen, unique_articles) ==
    IF i > Len(articles) THEN unique_articles
    ELSE IF articles[i].ident \notin seen
    THEN dedup_loop(articles, i + 1, seen \cup {articles[i].ident},
                    Append(unique_articles, articles[i]))
    ELSE dedup_loop(articles, i + 1, seen, unique_articles)

\* mutant: the loop stops at the first duplicate it drops
RECURSIVE dedup_loop_once(_, _, _, _)
dedup_loop_once(articles, i, seen, unique_articles) ==
    IF i > Len(articles) THEN unique_articles
    ELSE IF articles[i].ident \notin seen
    THEN dedup_loop_once(articles, i + 1, seen \cup {articles[i].ident},
                         Append(unique_articles, articles[i]))
    ELSE unique_articles \o SubSeq(articles, i + 1, Len(articles))

remove_duplicates_first_only(articles, data_source) ==
    IF data_source \notin allowed_sources
    THEN [raised |-> TRUE, exception |-> "ValueError", articles |-> <<>>]
    ELSE IF \E i \in 1..Len(articles) : entry_id_raises(articles[i], data_source)
    THEN [raised |-> TRUE, exception |-> "KeyError", articles |-> <<>>]
    ELSE [raised |-> FALSE, exception |-> NoneStr,
          articles |-> dedup_loop_once(articles, 1, {}, <<>>)]

\* mutant: the last article of every entry_id is kept
remove_duplicates_keep_last(articles, data_source) ==
    IF data_source \notin allowed_sources
    THEN [raised |-> TRUE, exception |-> "ValueError", articles |-> <<>>]
    ELSE IF \E i \in 1..Len(articles) : entry_id_raises(articles[i], data_source)
    THEN [raised |-> TRUE, exception |-> "KeyError", articles |-> <<>>]
    ELSE LET kept == {i \in 1..Len(articles) :
                         \A j \in (i + 1)..Len(articles) :
                             articles[j].ident # articles[i].ident}
             nth(n) == CHOOSE i \in kept : Cardinality({j \in kept : j <= i}) = n
         IN  [raised |-> FALSE, exception |-> NoneStr,
              articles |-> [n \in 1..Cardinality(kept) |-> articles[nth(n)]]]

\* mutant: the source is looked at inside the loop only
remove_duplicates_source_in_loop(articles, data_source) ==
    IF data_source \notin allowed_sources /\ articles # <<>>
    THEN [raised |-> TRUE, exception |-> "ValueError", articles |-> <<>>]
    ELSE IF \E i \in 1..Len(articles) : entry_id_raises(articles[i], data_source)
    THEN [raised |-> TRUE, exception |-> "KeyError", articles |-> <<>>]
    ELSE [raised |-> FALSE, exception |-> NoneStr,
          articles |-> dedup_loop(articles, 1, {}, <<>>)]

\* the list returned, or the exception raised: ValueError for a source that
\* is not allowed, KeyError from the loop
remove_duplicates(articles, data_source) ==
    IF data_source \notin allowed_sources
    THEN [raised |-> TRUE, exception |-> "ValueError", articles |-> <<>>]
    ELSE IF \E i \in 1..Len(articles) : entry_id_raises(articles[i], data_source)
    THEN [raised |-> TRUE, exception |-> "KeyError", articles |-> <<>>]
    ELSE [raised |-> FALSE, exception |-> NoneStr,
          articles |-> dedup_loop(articles, 1, {}, <<>>)]

-----------------------------------------------------------------------------
(* mcp_lab/config_manager.py: MCPConfig *)

\* A tool configuration is a dict: the set of its keys, whether its 'args'
\* is a list, and its 'transport'; the values of 'command' and 'url' are
\* not looked at.
ToolKeys == {"command", "args", "url", "transport"}

ToolNames == {"get_current_time", "get_current_weather", "search"}

tool(keys, args_is_list, transport) ==
    [keys |-> keys, args_is_list |-> args_is_list, transport |-> transport]

\* the entry of a name the configuration does not hold
NoTool == tool({}, FALSE, NoneStr)

\* a configuration dict: the names it holds and their entries
config_of(names, entries) ==
    [names |-> names, entry |-> [n \in ToolNames |-> IF n \in names THEN entries[n] ELSE NoTool]]

DEFAULT_CONFIG ==
    config_of({"get_current_time", "get_current_weather"},
              [n \in ToolNames |-> tool({"command", "args", "transport"}, TRUE, "stdio")])

MsgNeedsCommandOrUrl(name) == <<"needs-command-or-url", name>>
MsgNeedsArgs(name) == <<"needs-args", name>>
MsgArgsNotList(name) == <<"args-not-list", name>>
MsgConfigValid == <<"valid", "">>
MsgAdded(name) == <<"added", name>>
MsgRemoved(name) == <<"removed", name>>
MsgNotPresent(name) == <<"not-present", name>>

validate_tool_config(name, config) ==
    IF "command" \notin config.keys /\ "url" \notin config.keys
    THEN [ok |-> FALSE, message |-> MsgNeedsCommandOrUrl(name)]
    ELSE IF "command" \in config.keys /\ "args" \notin config.keys
    THEN [ok |-> FALSE, message |-> MsgNeedsArgs(name)]
    ELSE IF "command" \in config.keys /\ ~config.args_is_list
    THEN [ok |-> FALSE, message |-> MsgArgsNotList(name)]
    ELSE [ok |-> TRUE, message |-> MsgConfigValid]

\* tool_config["transport"] = "sse" / "stdio"
with_transport(tool_config) ==
    IF "url" \in tool_config.keys
    THEN [tool_config EXCEPT !.keys = @ \cup {"transport"}, !.transport = "sse"]
    ELSE IF "transport" \notin tool_config.keys
    THEN [tool_config EXCEPT !.keys = @ \cup {"transport"}, !.transport = "stdio"]
    ELSE tool_config

\* mutant: the entry is stored before it is validated
add_tool_stores_first(config, name, tool_config) ==
    LET v == validate_tool_config(name, tool_config)
        stored == [names |-> config.names \cup {name},
                   entry |-> [config.entry EXCEPT ![name] = with_transport(tool_config)]]
    IN  IF ~v.ok THEN [config |-> stored, ok |-> FALSE, message |-> v.message]
        ELSE [config |-> stored, ok |-> TRUE, message |-> MsgAdded(name)]

\* add_tool: self._config after the call, and the pair returned
add_tool(config, name, tool_config) ==
    LET v == validate_tool_config(name, tool_config)
    IN  IF ~v.ok THEN [config |-> config, ok |-> FALSE, message |-> v.message]
        ELSE [config |-> [names |-> config.names \cup {name},
                          entry |-> [config.entry EXCEPT ![name] = with_transport(tool_config)]],
              ok |-> TRUE,
              message |-> MsgAdded(name)]

\* remove_tool: self._config after the call, and the pair returned
remove_tool(config, name) ==
    IF name \in config.names
    THEN [config |-> [names |-> config.names \ {name},
                      entry |-> [config.entry EXCEPT ![name] = NoTool]],
          ok |-> TRUE,
          message |-> MsgRemoved(name)]
    ELSE [config |-> config, ok |-> FALSE, message |-> MsgNotPresent(name)]

\* no call is made on an MCPConfig
McpIdle == [config |-> DEFAULT_CONFIG, log |-> <<>>, phase |-> "idle"]

-----------------------------------------------------------------------------
(* The scorer and remove_duplicates when they are not called *)

NoResult == [raised |-> FALSE, exception |-> NoneStr, articles |-> <<>>]

ScoringIdle ==
    [state |-> PaperScoringState(<<"need">>, <<>>, <<>>),
     outcome |-> [raised |-> FALSE, text |-> <<>>],
     declared |-> <<0, 0, 0>>,
     llm_calls |-> 0,
     phase |-> "idle"]

BatchIdle ==
    [user_requirement |-> <<"need">>,
     keywords |-> <<>>,
     papers |-> <<>>,
     outcomes |-> <<>>,
     result |-> <<>>,
     llm_calls |-> 0,
     phase |-> "idle"]

DedupIdle ==
    [articles |-> <<>>, data_source |-> "ArXiv", once |-> NoResult, twice |-> NoResult,
     calls |-> 0, phase |-> "idle"]

\* no invocation is made
RunsIdle == [run |-> <<>>, start |-> <<>>, clients |-> {}, overlapped |-> FALSE]

ToolsIdle ==
    /\ scoring = ScoringIdle /\ batch = BatchIdle /\ dedup = DedupIdle
    /\ runs = RunsIdle /\ mcp = McpIdle

-----------------------------------------------------------------------------
(* langgraph_lab/multi_agent.py: the node functions over a plain dict *)

\* A dict is a record with the set of its keys; a key that is absent holds
\* the value dict.get returns for it.
LabKeys ==
    {"messages", "paper_source", "user_keywords", "extracted_keywords",
     "validation_result", "need_correction", "error"}

\* initial_state of the script
lab_initial_state(messages, paper_source, user_keywords) ==
    [keys |-> LabKeys,
     messages |-> messages,
     paper_source |-> paper_source,
     user_keywords |-> user_keywords,
     extracted_keywords |-> NoneText,
     validation_result |-> NoneText,
     need_correction |-> FALSE,
     error |-> FALSE]

LabErrNoMessage == <<"no-user-message">>

\* {"extracted_keywords": text}: a dict with this key alone
lab_only_extracted(text) ==
    [keys |-> {"extracted_keywords"},
     messages |-> <<>>,
     paper_source |-> NoneStr,
     user_keywords |-> NoneList,
     extracted_keywords |-> text,
     validation_result |-> NoneText,
     need_correction |-> FALSE,
     error |-> FALSE]

\* "messages" not in state or not state["messages"]
lab_no_messages(st) == "messages" \notin st.keys \/ st.messages = <<>>

\* the new state, whether the model was called, whether the node raised;
\* get_keywords_from_query is called without a try
summarizer_node(st, outcome) ==
    IF lab_no_messages(st)
    THEN [state |-> lab_only_extracted(LabErrNoMessage), called |-> FALSE, raised |-> FALSE]
    ELSE IF TruthyList(st.user_keywords)
    THEN [state |-> [st EXCEPT !.keys = @ \cup {"extracted_keywords", "error"},
                               !.extracted_keywords =
                                   <<EN, Colon, SP>> \o join(<<Comma, SP>>, st.user_keywords)
                                       \o <<Semi>>,
                               !.error = FALSE],
          called |-> FALSE, raised |-> FALSE]
    ELSE IF outcome.raised
    THEN [state |-> st, called |-> TRUE, raised |-> TRUE]
    ELSE [state |-> [st EXCEPT !.keys = @ \cup {"extracted_keywords", "error"},
                               !.extracted_keywords = outcome.text,
                               !.error = FALSE],
          called |-> TRUE, raised |-> FALSE]

LabMsgNoKeywords == <<"no-keywords">>
LabMsgNoLabel == <<"format-error:", "no-english-label">>
LabMsgNotAbbrev == <<"format-error:", "abbreviations-wanted">>
LabMsgNotFull == <<"format-error:", "full-phrases-wanted">>
LabMsgOk == <<"format-ok", ".">>
LabMsgCorrected == <<"corrected">>

LabAbbrevMaxLen == 3

\* extracted.split("英文关键词:")[-1].split(",")
lab_pieces(extracted) ==
    LET i == CHOOSE j \in 1..(Len(extracted) - 1) :
                 /\ extracted[j] = EN /\ extracted[j + 1] = Colon
                 /\ \A k \in (j + 1)..(Len(extracted) - 1) :
                        ~(extracted[k] = EN /\ extracted[k + 1] = Colon)
    IN  split_on(SubSeq(extracted, i + 2, Len(extracted)), {Comma})

lab_validation(extracted, paper_source) ==
    IF ~TruthyText(extracted) THEN LabMsgNoKeywords
    ELSE IF ~has_english_label(extracted) THEN LabMsgNoLabel
    ELSE IF /\ paper_source \in {"ArXiv", "IEEE"}
            /\ \E n \in 1..Len(lab_pieces(extracted)) :
                   Len(strip(lab_pieces(extracted)[n])) > LabAbbrevMaxLen
    THEN LabMsgNotAbbrev
    ELSE IF /\ paper_source = "SciHub"
            /\ \E n \in 1..Len(lab_pieces(extracted)) :
                   split_words_len(strip(lab_pieces(extracted)[n])) # 1
    THEN LabMsgNotFull
    ELSE LabMsgOk

validator_node(st) ==
    LET validation == lab_validation(st.extracted_keywords, st.paper_source)
    IN  [st EXCEPT !.keys = @ \cup {"validation_result", "need_correction"},
                   !.validation_result = validation,
                   !.need_correction = (validation # LabMsgOk /\ ~st.error)]

\* state["messages"][-1] raises KeyError without the key and IndexError on
\* an empty list
correction_node(st, outcome) ==
    IF ~st.need_correction
    THEN [state |-> st, called |-> FALSE, raised |-> FALSE]
    ELSE IF lab_no_messages(st)
    THEN [state |-> st, called |-> FALSE, raised |-> TRUE]
    ELSE IF outcome.raised
    THEN [state |-> st, called |-> TRUE, raised |-> TRUE]
    ELSE [state |-> [st EXCEPT !.keys = @ \cup {"extracted_keywords", "validation_result",
                                                "need_correction"},
                               !.extracted_keywords = outcome.text,
                               !.validation_result = LabMsgCorrected,
                               !.need_correction = FALSE],
          called |-> TRUE, raised |-> FALSE]

\* no run of the graph over the node functions is under way
LabIdle ==
    [state |-> lab_initial_state(<<"need">>, "ArXiv", NoneList),
     pc |-> "idle", steps |-> 0, llm_calls |-> 0]

-----------------------------------------------------------------------------
(* langgraph_lab/multi_agent.py: the graph and its run *)

\* config = {"recursion_limit": 10}: the configured ceiling, which
\* graph.invoke(initial_state) is not given
ConfiguredRecursionLimit == 10

\* the limit graph.invoke applies when it is given no config: LangGraph's
\* default number of super-steps, after which it raises GraphRecursionError
RecursionLimit == 25

Nodes == {"summarizer", "validator", "corrector"}

\* mutant: the conditional edge never enters the corrector
should_correct_never(s) == "END"

\* mutant: the conditional edge always enters the corrector
should_correct_always(s) == "corrector"

\* the conditional edge after the validator
should_correct(s) == IF s.need_correction THEN "corrector" ELSE "END"

\* no direct call of _validate_keywords is part of a workflow run
NoValidateCall ==
    /\ vin = [english_keywords |-> <<>>, paper_source |-> "ArXiv"]
    /\ vout = [done |-> FALSE, is_valid |-> FALSE, message |-> <<>>]

Init ==
    /\ \E m \in MessageInputs, src \in Sources, uk \in UserKeywordInputs :
           state = create_initial_state(m, src, uk)
    /\ pc = "summarizer"
    /\ steps = 0
    /\ last = "none"
    /\ llm_calls = 0
    /\ corrector_calls = 0
    /\ llm_raised = FALSE
    /\ NoValidateCall
    /\ lab = LabIdle
    /\ ToolsIdle

\* mutant: a failed extraction goes to END without the validator
Summarizer_skip_on_error ==
    /\ pc = "summarizer"
    /\ steps < RecursionLimit
    /\ \E outcome \in LlmOutcomes :
           LET r == extractor_process(state, outcome)
           IN  /\ state' = r.state
               /\ llm_calls' = llm_calls + (IF r.called THEN 1 ELSE 0)
               /\ llm_raised' = (IF r.called THEN outcome.raised ELSE llm_raised)
    /\ pc' = (IF state'.error THEN "END" ELSE "validator")
    /\ steps' = steps + 1
    /\ last' = "summarizer"
    /\ UNCHANGED <<corrector_calls, vin, vout, lab>>
    /\ UNCHANGED ToolVars

\* entry point: the extractor node, then the edge summarizer -> validator
Summarizer ==
    /\ pc = "summarizer"
    /\ steps < RecursionLimit
    /\ \E outcome \in LlmOutcomes :
           LET r == extractor_process(state, outcome)
           IN  /\ state' = r.state
               /\ llm_calls' = llm_calls + (IF r.called THEN 1 ELSE 0)
               /\ llm_raised' = (IF r.called THEN outcome.raised ELSE llm_raised)
    /\ pc' = "validator"
    /\ steps' = steps + 1
    /\ last' = "summarizer"
    /\ UNCHANGED <<corrector_calls, vin, vout, lab>>
    /\ UNCHANGED ToolVars

\* the validator node, then the conditional edge should_correct
Validator ==
    /\ pc = "validator"
    /\ steps < RecursionLimit
    /\ state' = validator_process(state)
    /\ pc' = should_correct(state')
    /\ steps' = steps + 1
    /\ last' = "validator"
    /\ UNCHANGED <<llm_calls, corrector_calls, vin, vout, llm_raised, lab>>
    /\ UNCHANGED ToolVars

\* mutant: a correction is final, the corrector's edge goes to END
Corrector_to_END ==
    /\ pc = "corrector"
    /\ steps < RecursionLimit
    /\ \E outcome \in LlmOutcomes :
           LET r == corrector_process(state, outcome)
           IN  /\ state' = r.state
               /\ llm_calls' = llm_calls + (IF r.called THEN 1 ELSE 0)
               /\ llm_raised' = (IF r.called THEN outcome.raised ELSE llm_raised)
    /\ pc' = "END"
    /\ steps' = steps + 1
    /\ last' = "corrector"
    /\ corrector_calls' = corrector_calls + 1
    /\ UNCHANGED <<vin, vout, lab>>
    /\ UNCHANGED ToolVars

\* the corrector node, then the edge corrector -> validator
Corrector ==
    /\ pc = "corrector"
    /\ steps < RecursionLimit
    /\ \E outcome \in LlmOutcomes :
           LET r == corrector_process(state, outcome)
           IN  /\ state' = r.state
               /\ llm_calls' = llm_calls + (IF r.called THEN 1 ELSE 0)
               /\ llm_raised' = (IF r.called THEN outcome.raised ELSE llm_raised)
    /\ pc' = "validator"
    /\ steps' = steps + 1
    /\ last' = "corrector"
    /\ corrector_calls' = corrector_calls + 1
    /\ UNCHANGED <<vin, vout, lab>>
    /\ UNCHANGED ToolVars

\* graph.invoke raises GraphRecursionError: the limit of super-steps is
\* reached and a node is still to run; no final state is returned
GraphRecursionError ==
    /\ pc \in Nodes
    /\ steps >= RecursionLimit
    /\ pc' = "raised"
    /\ UNCHANGED <<state, steps, last, llm_calls, corrector_calls, vin, vout, llm_raised, lab>>
    /\ UNCHANGED ToolVars

Next == Summarizer \/ Validator \/ Corrector \/ GraphRecursionError

Spec == Init /\ [][Next]_vars

\* graph.invoke runs synchronously to its end: a step that can be taken is taken
FairSpec == Spec /\ WF_vars(Next)

-----------------------------------------------------------------------------
(* Direct calls of ValidatorAgent._validate_keywords on arbitrary lists *)

KeywordAlphabet == {"a", "L", "1", SP}

\* longest generated keyword
MaxKwLen == 6

\* every keyword of at most MaxKwLen characters
AllKeywords == ListsUpTo(KeywordAlphabet, MaxKwLen)

ValidateLists ==
    {NoneList} \cup {<<k>> : k \in AllKeywords} \cup ListsUpTo(ProbeKeywords, MaxKws)

InitValidate ==
    /\ state = create_initial_state(<<"need">>, "ArXiv", NoneList)
    /\ pc = "direct-call"
    /\ steps = 0
    /\ last = "none"
    /\ llm_calls = 0
    /\ corrector_calls = 0
    /\ llm_raised = FALSE
    /\ lab = LabIdle
    /\ ToolsIdle
    /\ \E l \in ValidateLists, src \in Sources :
           vin = [english_keywords |-> l, paper_source |-> src]
    /\ vout = [done |-> FALSE, is_valid |-> FALSE, message |-> <<>>]

CallValidate ==
    /\ pc = "direct-call"
    /\ ~vout.done
    /\ LET r == _validate_keywords(vin.english_keywords, vin.paper_source)
       IN  vout' = [done |-> TRUE, is_valid |-> r.is_valid, message |-> r.message]
    /\ UNCHANGED <<state, pc, steps, last, llm_calls, corrector_calls, vin, llm_raised, lab>>
    /\ UNCHANGED ToolVars

NextValidate == CallValidate

SpecValidate == InitValidate /\ [][NextValidate]_vars

-----------------------------------------------------------------------------
(* The graph of multi_agent.py run over its own node functions *)

AgentVars == <<state, pc, steps, last, llm_calls, corrector_calls, vin, vout, llm_raised>>

\* the agents take no part
AgentsIdle(at) ==
    /\ state = create_initial_state(<<"need">>, "ArXiv", NoneList)
    /\ pc = at
    /\ steps = 0
    /\ last = "none"
    /\ llm_calls = 0
    /\ corrector_calls = 0
    /\ llm_raised = FALSE
    /\ NoValidateCall

InitLab ==
    /\ AgentsIdle("lab-run")
    /\ \E m \in MessageInputs, src \in Sources, uk \in UserKeywordInputs :
           lab = [state |-> lab_initial_state(m, src, uk),
                  pc |-> "summarizer", steps |-> 0, llm_calls |-> 0]
    /\ ToolsIdle

\* a super-step of the node at lab.pc: r is what the node function gives
LabStep(r, next) ==
    lab' = [state |-> r.state,
            pc |-> IF r.raised THEN "raised" ELSE next,
            steps |-> lab.steps + 1,
            llm_calls |-> lab.llm_calls + (IF r.called THEN 1 ELSE 0)]

LabSummarizer ==
    /\ lab.pc = "summarizer"
    /\ lab.steps < RecursionLimit
    /\ \E outcome \in LlmOutcomes : LabStep(summarizer_node(lab.state, outcome), "validator")
    /\ UNCHANGED AgentVars
    /\ UNCHANGED ToolVars

LabValidator ==
    /\ lab.pc = "validator"
    /\ lab.steps < RecursionLimit
    /\ LET st == validator_node(lab.state)
       IN  LabStep([state |-> st, called |-> FALSE, raised |-> FALSE], should_correct(st))
    /\ UNCHANGED AgentVars
    /\ UNCHANGED ToolVars

LabCorrector ==
    /\ lab.pc = "corrector"
    /\ lab.steps < RecursionLimit
    /\ \E outcome \in LlmOutcomes : LabStep(correction_node(lab.state, outcome), "validator")
    /\ UNCHANGED AgentVars
    /\ UNCHANGED ToolVars

LabGraphRecursionError ==
    /\ lab.pc \in Nodes
    /\ lab.steps >= RecursionLimit
    /\ lab' = [lab EXCEPT !.pc = "raised"]
    /\ UNCHANGED AgentVars
    /\ UNCHANGED ToolVars

NextLab == LabSummarizer \/ LabValidator \/ LabCorrector \/ LabGraphRecursionError

SpecLab == InitLab /\ [][NextLab]_vars

-----------------------------------------------------------------------------
(* Direct calls of the corrector on states the nodes before it produce *)

\* the initial states, and the states the extractor, the validator and the
\* corrector return when called one after the other
DirectStates ==
    LET S0 == {create_initial_state(m, src, uk) :
                   m \in MessageInputs, src \in Sources, uk \in UserKeywordInputs}
        S1 == {extractor_process(s, o).state : s \in S0, o \in LlmOutcomes}
        S2 == {validator_process(s) : s \in S1}
        S3 == {corrector_process(s, o).state : s \in S2, o \in LlmOutcomes}
    IN  S0 \cup S1 \cup S2 \cup S3

LabDirectStates ==
    LET S0 == {lab_initial_state(m, src, uk) :
                   m \in MessageInputs, src \in Sources, uk \in UserKeywordInputs}
        S1 == {summarizer_node(s, o).state : s \in S0, o \in LlmOutcomes}
        S2 == {validator_node(s) : s \in S1}
    IN  S0 \cup S1 \cup S2

InitDirect ==
    \/ /\ state \in DirectStates
       /\ pc = "direct-call"
       /\ steps = 0
       /\ last = "none"
       /\ llm_calls = 0
       /\ corrector_calls = 0
       /\ llm_raised = FALSE
       /\ NoValidateCall
       /\ lab = LabIdle
       /\ ToolsIdle
    \/ /\ AgentsIdle("lab-call")
       /\ \E st \in LabDirectStates :
              lab = [state |-> st, pc |-> "direct-call", steps |-> 0, llm_calls |-> 0]
       /\ ToolsIdle

\* result = corrector(state)
DirectCorrector ==
    /\ pc = "direct-call"
    /\ steps = 0
    /\ \E outcome \in LlmOutcomes :
           LET r == corrector_process(state, outcome)
           IN  /\ state' = r.state
               /\ llm_calls' = llm_calls + (IF r.called THEN 1 ELSE 0)
               /\ llm_raised' = (IF r.called THEN outcome.raised ELSE llm_raised)
    /\ pc' = "returned"
    /\ steps' = steps + 1
    /\ last' = "corrector"
    /\ corrector_calls' = corrector_calls + 1
    /\ UNCHANGED <<vin, vout, lab>>
    /\ UNCHANGED ToolVars

\* correction_node(state)
DirectCorrectionNode ==
    /\ lab.pc = "direct-call"
    /\ \E outcome \in LlmOutcomes : LabStep(correction_node(lab.state, outcome), "returned")
    /\ UNCHANGED AgentVars
    /\ UNCHANGED ToolVars

NextDirect == DirectCorrector \/ DirectCorrectionNode

SpecDirect == InitDirect /\ [][NextDirect]_vars

-----------------------------------------------------------------------------
(* One call of PaperScorerAgent.process *)

\* largest integers a response declares: past the ranges of the scores
MaxDeclaredTotal == 22
MaxDeclaredPart == 12

\* a response without the line of a label declares Undeclared for it
Undeclared == 0 - 1

\* str(n)
RECURSIVE digits_of(_)
digits_of(n) ==
    IF n < 10 THEN <<Digits[n + 1]>>
    ELSE digits_of(n \div 10) \o <<Digits[(n % 10) + 1]>>

\* ways the model writes a labelled line: "label: 7", "label：7/20", and the
\* placeholder of the prompt echoed before the line, the number on a line
\* of its own
LineStyles == {"plain", "wide", "echo"}

score_line(label, n, style) ==
    IF n = Undeclared THEN <<>>
    ELSE IF style = "plain" THEN <<label, Colon, SP>> \o digits_of(n) \o <<NL>>
    ELSE IF style = "wide" THEN <<label, FwColon>> \o digits_of(n) \o <<"/", "2", "0", NL>>
    ELSE <<label, Colon, SP, "[", "1", "-", "2", "0", "]", NL, label, Colon, NL, SP>>
             \o digits_of(n) \o <<NL>>

ReasonGiven == <<"on", SP, "topic">>

score_response(total, keyword, semantic, style) ==
    score_line(TotalLabel, total, style) \o score_line(KeywordLabel, keyword, style)
        \o score_line(SemanticLabel, semantic, style)
        \o <<ReasonLabel, Colon, SP>> \o ReasonGiven \o <<SP, NL>>

DeclaredTriples ==
    (Undeclared..MaxDeclaredTotal) \X (Undeclared..MaxDeclaredPart)
        \X (Undeclared..MaxDeclaredPart)

\* one call either of a paper with an abstract, answered in any style or
\* failing, or of a paper without one
InitScore ==
    /\ AgentsIdle("scorer")
    /\ lab = LabIdle
    /\ batch = BatchIdle
    /\ dedup = DedupIdle
    /\ runs = RunsIdle
    /\ mcp = McpIdle
    /\ \E d \in DeclaredTriples, style \in LineStyles, raised \in BOOLEAN,
          abstract \in {<<"abstract">>, <<>>, NoneText} :
           /\ raised => (d = <<Undeclared, Undeclared, Undeclared>> /\ style = "plain")
           /\ abstract # <<"abstract">> => (~raised /\ style = "plain")
           /\ scoring = [state |-> PaperScoringState(<<"need">>, abstract, <<kLLM>>),
                         outcome |-> IF raised THEN [raised |-> TRUE, text |-> <<>>]
                                     ELSE [raised |-> FALSE,
                                           text |-> score_response(d[1], d[2], d[3], style)],
                         declared |-> d,
                         llm_calls |-> 0,
                         phase |-> "call"]

\* result = scorer.process(state)
ProcessCall ==
    /\ scoring.phase = "call"
    /\ LET r == scorer_process(scoring.state, scoring.outcome)
       IN  scoring' = [scoring EXCEPT !.state = r.state,
                                      !.llm_calls = @ + (IF r.called THEN 1 ELSE 0),
                                      !.phase = "returned"]
    /\ UNCHANGED <<AgentVars, lab, batch, dedup, runs, mcp>>

NextScore == ProcessCall

SpecScore == InitScore /\ [][NextScore]_vars

-----------------------------------------------------------------------------
(* One call of PaperScorerAgent.score_papers *)

\* longest list of papers
MaxPapers == 3

\* a paper with an abstract, with an empty abstract, with a summary only,
\* with neither
PaperKinds == {"abstract", "empty", "summary", "bare"}

BatchPaper(id, kind) ==
    [id |-> id,
     abstract |-> IF kind = "abstract" THEN <<"abstract">>
                  ELSE IF kind = "empty" THEN <<>> ELSE AbsentText,
     summary |-> IF kind = "summary" THEN <<"summary">> ELSE AbsentText]

\* answers of the model for one paper: 18/9/9, 6/3/3, 20/3/3 and an
\* exception; "none" where no call is made
BatchOutcome(name) ==
    IF name = "high" THEN [raised |-> FALSE, text |-> score_response(18, 9, 9, "plain")]
    ELSE IF name = "low" THEN [raised |-> FALSE, text |-> score_response(6, 3, 3, "wide")]
    ELSE IF name = "override" THEN [raised |-> FALSE, text |-> score_response(20, 3, 3, "plain")]
    ELSE [raised |-> TRUE, text |-> <<>>]

OutcomeNames == {"high", "low", "override", "raised"}

\* a paper and the outcome of its model call; no call is made for a paper
\* without an abstract
BatchCases ==
    {[kind |-> k, outcome |-> o] : k \in {"abstract", "summary"}, o \in OutcomeNames}
        \cup {[kind |-> k, outcome |-> "none"] : k \in {"empty", "bare"}}

InitBatch ==
    /\ AgentsIdle("scorer")
    /\ lab = LabIdle
    /\ scoring = ScoringIdle
    /\ dedup = DedupIdle
    /\ runs = RunsIdle
    /\ mcp = McpIdle
    /\ \E cases \in ListsUpTo(BatchCases, MaxPapers) :
           batch = [user_requirement |-> <<"need">>,
                    keywords |-> <<kLLM>>,
                    papers |-> [i \in 1..Len(cases) |-> BatchPaper(i, cases[i].kind)],
                    outcomes |-> [i \in 1..Len(cases) |-> BatchOutcome(cases[i].outcome)],
                    result |-> <<>>,
                    llm_calls |-> 0,
                    phase |-> "call"]

\* ranked = scorer.score_papers(user_requirement, papers, keywords)
ScorePapersCall ==
    /\ batch.phase = "call"
    /\ \E r \in {score_papers(batch.user_requirement, batch.papers, batch.keywords,
                               batch.outcomes)} :
           batch' = [batch EXCEPT !.result = r.papers,
                                  !.llm_calls = r.calls,
                                  !.phase = "returned"]
    /\ UNCHANGED <<AgentVars, lab, scoring, dedup, runs, mcp>>

NextBatch == ScorePapersCall

SpecBatch == InitBatch /\ [][NextBatch]_vars

-----------------------------------------------------------------------------
(* remove_duplicates applied to a list and then to its own result *)

\* longest list of articles
MaxArticles == 3

Articles == {[ident |-> i, title |-> t] : i \in {"a", "b", NoId}, t \in {"t1", "t2"}}

InitDedup ==
    /\ AgentsIdle("dedup")
    /\ lab = LabIdle
    /\ scoring = ScoringIdle
    /\ batch = BatchIdle
    /\ runs = RunsIdle
    /\ mcp = McpIdle
    /\ \E xs \in ListsUpTo(Articles, MaxArticles),
          src \in allowed_sources \cup {"Google Scholar", "arxiv"} :
           dedup = [articles |-> xs, data_source |-> src, once |-> NoResult,
                    twice |-> NoResult, calls |-> 0, phase |-> "call"]

\* articles = remove_duplicates(articles, data_source)
DedupCall ==
    /\ dedup.phase = "call"
    /\ dedup.calls = 0
    /\ LET r == remove_duplicates(dedup.articles, dedup.data_source)
       IN  dedup' = [dedup EXCEPT !.once = r,
                                  !.calls = 1,
                                  !.phase = IF r.raised THEN "raised" ELSE "call"]
    /\ UNCHANGED <<AgentVars, lab, scoring, batch, runs, mcp>>

\* the same call on the list the first call returned
DedupAgain ==
    /\ dedup.phase = "call"
    /\ dedup.calls = 1
    /\ LET r == remove_duplicates(dedup.once.articles, dedup.data_source)
       IN  dedup' = [dedup EXCEPT !.twice = r,
                                  !.calls = 2,
                                  !.phase = IF r.raised THEN "raised" ELSE "returned"]
    /\ UNCHANGED <<AgentVars, lab, scoring, batch, runs, mcp>>

NextDedup == DedupCall \/ DedupAgain

SpecDedup == InitDedup /\ [][NextDedup]_vars

-----------------------------------------------------------------------------
(* Calls of add_tool and remove_tool on one MCPConfig *)

\* largest number of calls made on the MCPConfig
MaxOps == 2

\* tool_config arguments of add_tool
ToolConfigInputs ==
    {tool(keys, args_is_list, IF "transport" \in keys THEN "stdio" ELSE NoneStr) :
        keys \in SUBSET ToolKeys, args_is_list \in BOOLEAN}
        \ {tool(keys, TRUE, t) : keys \in SUBSET (ToolKeys \ {"args"}), t \in {"stdio", NoneStr}}

\* name arguments: a name of the default configuration and a new one
NameInputs == {"get_current_time", "search"}

\* the configuration file is absent or unreadable, or holds an empty dict
InitMcp ==
    /\ AgentsIdle("mcp")
    /\ lab = LabIdle
    /\ scoring = ScoringIdle
    /\ batch = BatchIdle
    /\ dedup = DedupIdle
    /\ runs = RunsIdle
    /\ \E loaded \in {DEFAULT_CONFIG, config_of({}, [n \in ToolNames |-> NoTool])} :
           mcp = [config |-> loaded, log |-> <<>>, phase |-> "ready"]

\* ok, message = config.add_tool(name, tool_config)
AddTool ==
    /\ mcp.phase = "ready"
    /\ Len(mcp.log) < MaxOps
    /\ \E name \in NameInputs, tool_config \in ToolConfigInputs :
           LET r == add_tool(mcp.config, name, tool_config)
           IN  mcp' = [mcp EXCEPT
                          !.config = r.config,
                          !.log = Append(@, [op |-> "add", name |-> name,
                                             tool_config |-> tool_config,
                                             ok |-> r.ok, message |-> r.message,
                                             before |-> mcp.config])]
    /\ UNCHANGED <<AgentVars, lab, scoring, batch, dedup, runs>>

\* ok, message = config.remove_tool(name)
RemoveTool ==
    /\ mcp.phase = "ready"
    /\ Len(mcp.log) < MaxOps
    /\ \E name \in NameInputs :
           LET r == remove_tool(mcp.config, name)
           IN  mcp' = [mcp EXCEPT
                          !.config = r.config,
                          !.log = Append(@, [op |-> "remove", name |-> name,
                                             tool_config |-> NoTool,
                                             ok |-> r.ok, message |-> r.message,
                                             before |-> mcp.config])]
    /\ UNCHANGED <<AgentVars, lab, scoring, batch, dedup, runs>>

NextMcp == AddTool \/ RemoveTool

SpecMcp == InitMcp /\ [][NextMcp]_vars

-----------------------------------------------------------------------------
(* Two invocations of the workflow on separate state records *)

\* An invocation is a record: its state, the node it runs next, its
\* super-steps and model calls so far, and script, the outcomes of its
\* model calls in order, the last one repeated.
OutcomeValid == [raised |-> FALSE, text |-> RespAbbrev]
OutcomeOther == [raised |-> FALSE, text |-> RespFull]
OutcomeRaised == [raised |-> TRUE, text |-> <<>>]

RunScripts ==
    {<<OutcomeValid>>, <<OutcomeOther>>, <<OutcomeOther, OutcomeValid>>,
     <<OutcomeValid, OutcomeOther>>, <<OutcomeOther, OutcomeRaised>>, <<OutcomeRaised>>}

RunStarts ==
    {[state |-> create_initial_state(<<"need">>, src, uk),
      pc |-> "summarizer", steps |-> 0, llm_calls |-> 0, script |-> script] :
        src \in {"ArXiv", "SciHub"}, uk \in {NoneList, <<kLLM>>, <<kPhrase>>},
        script \in RunScripts}

\* the outcome of the next model call of an invocation
outcome_of(r) ==
    IF r.llm_calls < Len(r.script) THEN r.script[r.llm_calls + 1] ELSE r.script[Len(r.script)]

\* the agent a node calls; every agent object creates its client at its
\* first model call and keeps it for all invocations
agent_of(node) == IF node = "summarizer" THEN "extractor" ELSE node

\* mutant: a model call of the extractor fails once its client exists
run_step_stale_client(r, clients) ==
    IF r.steps >= RecursionLimit THEN [r EXCEPT !.pc = "raised"]
    ELSE IF r.pc = "summarizer"
    THEN LET res == extractor_process(r.state, IF "extractor" \in clients THEN OutcomeRaised
                                               ELSE outcome_of(r))
         IN  [r EXCEPT !.state = res.state,
                       !.llm_calls = @ + (IF res.called THEN 1 ELSE 0),
                       !.pc = "validator",
                       !.steps = @ + 1]
    ELSE IF r.pc = "validator"
    THEN [r EXCEPT !.state = validator_process(r.state),
                   !.pc = should_correct(validator_process(r.state)),
                   !.steps = @ + 1]
    ELSE LET res == corrector_process(r.state, outcome_of(r))
         IN  [r EXCEPT !.state = res.state,
                       !.llm_calls = @ + (IF res.called THEN 1 ELSE 0),
                       !.pc = "validator",
                       !.steps = @ + 1]

\* one super-step of an invocation that has a node to run: the node and
\* the edge after it, or GraphRecursionError
run_step(r, clients) ==
    IF r.steps >= RecursionLimit THEN [r EXCEPT !.pc = "raised"]
    ELSE IF r.pc = "summarizer"
    THEN LET res == extractor_process(r.state, outcome_of(r))
         IN  [r EXCEPT !.state = res.state,
                       !.llm_calls = @ + (IF res.called THEN 1 ELSE 0),
                       !.pc = "validator",
                       !.steps = @ + 1]
    ELSE IF r.pc = "validator"
    THEN [r EXCEPT !.state = validator_process(r.state),
                   !.pc = should_correct(validator_process(r.state)),
                   !.steps = @ + 1]
    ELSE LET res == corrector_process(r.state, outcome_of(r))
         IN  [r EXCEPT !.state = res.state,
                       !.llm_calls = @ + (IF res.called THEN 1 ELSE 0),
                       !.pc = "validator",
                       !.steps = @ + 1]

\* the clients that exist after the step from r to n
clients_after(r, n, clients) ==
    IF n.llm_calls > r.llm_calls THEN clients \cup {agent_of(r.pc)} ELSE clients

\* graph.invoke of one invocation in a process that makes no other
RECURSIVE run_alone(_, _)
run_alone(r, clients) ==
    IF r.pc \notin Nodes THEN r
    ELSE CHOOSE final \in {run_alone(n, clients_after(r, n, clients)) :
                               n \in {run_step(r, clients)}} : TRUE

InitRuns ==
    /\ AgentsIdle("two-runs")
    /\ lab = LabIdle
    /\ scoring = ScoringIdle
    /\ batch = BatchIdle
    /\ dedup = DedupIdle
    /\ mcp = McpIdle
    /\ \E a \in RunStarts, b \in RunStarts :
           runs = [run |-> <<a, b>>, start |-> <<a, b>>, clients |-> {}, overlapped |-> FALSE]

\* the next super-step of invocation i
RunStep(i) ==
    /\ runs.run[i].pc \in Nodes
    /\ \E n \in {run_step(runs.run[i], runs.clients)} :
           runs' = [runs EXCEPT
                       !.run[i] = n,
                       !.clients = clients_after(runs.run[i], n, @),
                       !.overlapped = @ \/ (runs.run[3 - i].steps > 0
                                               /\ runs.run[3 - i].pc \in Nodes)]
    /\ UNCHANGED <<AgentVars, lab, scoring, batch, dedup, mcp>>

NextRuns == \E i \in 1..2 : RunStep(i)

SpecRuns == InitRuns /\ [][NextRuns]_vars

-----------------------------------------------------------------------------
(* Properties of the workflow run *)

\* a super-step of the named node is taken
SummarizerRan == pc = "summarizer" /\ steps' = steps + 1
ValidatorRan == pc = "validator" /\ steps' = steps + 1
CorrectorRan == pc = "corrector" /\ steps' = steps + 1

ErrCeiling == "retry-ceiling-exceeded"

\* C1: with the configured ceiling N, a run whose corrections all succeed and
\* all stay invalid ends after exactly N corrector invocations with error
\* set and the ceiling-exceeded message; an (N+1)-th corrector invocation
\* never happens.
C1_RetryCeiling ==
    /\ corrector_calls <= ConfiguredRecursionLimit
    /\ (/\ last = "validator"
        /\ state.need_correction
        /\ state.retry_count = ConfiguredRecursionLimit
        /\ corrector_calls = ConfiguredRecursionLimit)
           => (pc = "END" /\ state.error /\ state.error_message = ErrCeiling)

\* graph.invoke is over: no node is left to run
Halted == pc \notin Nodes

\* C2: every run reaches the terminal state, whatever the initial state and
\* the model outcomes: a run that is over has reached END.
C2_Termination == Halted => pc = "END"

\* C3: after a Validator step the run moves to the Corrector iff
\* need_correction and not error and retry_count below the configured
\* ceiling, and to the terminal state otherwise.
C3_RoutingGuard ==
    [][ValidatorRan =>
          IF /\ state'.need_correction
             /\ ~state'.error
             /\ state'.retry_count < ConfiguredRecursionLimit
          THEN pc' = "corrector"
          ELSE pc' = "END"]_vars

C5_StepOrdering ==
    [][/\ SummarizerRan => (steps = 0 /\ last = "none" /\ pc' = "validator")
       /\ ValidatorRan => (last \in {"summarizer", "corrector"} /\ steps >= 1)
       /\ CorrectorRan => (last = "validator" /\ pc' = "validator")
       /\ (steps' = steps + 1) => (SummarizerRan \/ ValidatorRan \/ CorrectorRan)
       /\ (pc' = "END" /\ pc # "END") => ValidatorRan
       /\ (steps = 0 /\ steps' # steps) => SummarizerRan]_vars

C5_Witness ==
    /\ pc = "END"
    /\ TruthyList(state.user_keywords)
    /\ corrector_calls = 2
    /\ steps = 6

\* C6: in the terminal state either error is set and error_message is a
\* non-empty message, or error and need_correction are false and
\* english_keywords is a non-empty list meeting the contract of paper_source.
C6_TerminalDichotomy ==
    (pc = "END" \/ state.current_step = "complete") =>
        \/ /\ state.error
           /\ state.error_message \notin {NoneStr, ""}
        \/ /\ ~state.error
           /\ ~state.need_correction
           /\ TruthyList(state.english_keywords)
           /\ _validate_keywords(state.english_keywords, state.paper_source).is_valid

C6_Witness ==
    /\ pc = "END"
    /\ ~state.error
    /\ state.retry_count >= 1
    /\ state.paper_source = "SciHub"

\* C7: need_correction implies that the current english_keywords fail the
\* validation against paper_source.
C7_NeedCorrectionMeansInvalid ==
    state.need_correction =>
        ~_validate_keywords(state.english_keywords, state.paper_source).is_valid

C7_Witness ==
    /\ state.need_correction
    /\ state.error
    /\ last = "corrector"
    /\ state.retry_count >= 1

\* C8 as stated: for every input state with non-empty user keywords the
\* Extractor echoes them, leaves error false and chinese_keywords empty and
\* makes no model call.
C8_BypassPurity_AsStated ==
    [][(SummarizerRan /\ TruthyList(state.user_keywords)) =>
          /\ state'.english_keywords = state.user_keywords
          /\ ~state'.error
          /\ ~TruthyList(state'.chinese_keywords)
          /\ llm_calls' = llm_calls]_vars

\* C8 amended: the same for every input state that also carries a user message.
C8_BypassPurity ==
    [][(SummarizerRan /\ TruthyList(state.user_keywords) /\ state.messages # <<>>) =>
          /\ state'.english_keywords = state.user_keywords
          /\ ~state'.error
          /\ ~TruthyList(state'.chinese_keywords)
          /\ llm_calls' = llm_calls]_vars

C8_Witness ==
    /\ last = "summarizer"
    /\ state.messages # <<>>
    /\ state.user_keywords = <<kPhrase, kLLM>>
    /\ state.english_keywords = <<kPhrase, kLLM>>
    /\ llm_calls = 0

\* C9 as stated: a Validator step on a state with error set changes
\* current_step to complete and nothing else; need_correction keeps its
\* incoming value, which is false.
C9_ErrorShortCircuit_AsStated ==
    [][(ValidatorRan /\ state.error) =>
          /\ state' = [state EXCEPT !.current_step = "complete"]
          /\ state'.need_correction = state.need_correction
          /\ ~state'.need_correction]_vars

\* C9 amended: such a step sets current_step to complete, validation_result
\* to the skipped marker and need_correction to false whatever it was, and
\* leaves every other field as it came in.
C9_ErrorShortCircuit ==
    [][(ValidatorRan /\ state.error) =>
          /\ state'.current_step = "complete"
          /\ state'.validation_result = MsgSkipped
          /\ ~state'.need_correction
          /\ \A f \in DOMAIN state \ {"current_step", "validation_result", "need_correction"} :
                 state'[f] = state[f]]_vars

C9_Witness ==
    /\ last = "validator"
    /\ state.error
    /\ state.error_message = ErrCorrect
    /\ state.validation_result = MsgSkipped
    /\ TruthyList(state.english_keywords)

\* whatever the source, an empty or missing list is invalid for lack of keywords
EmptyListsAreInvalid ==
    \A src \in Sources : \A kws \in {<<>>, NoneList} :
        _validate_keywords(kws, src) = [is_valid |-> FALSE, message |-> MsgNoKeywords]

\* C12 as stated: an empty or missing list is invalid for every source, and
\* a Validator step on a state whose english_keywords is empty or missing
\* sets need_correction and moves current_step to correct.
C12_EmptyIsInvalid_AsStated ==
    [][/\ EmptyListsAreInvalid
       /\ (ValidatorRan /\ ~state.error /\ ~TruthyList(state.english_keywords)) =>
              /\ state'.validation_result = MsgNoKeywords
              /\ state'.need_correction
              /\ state'.current_step = "correct"]_vars

\* C12 amended: the same for the list the Validator validates, which is the
\* list read back from extracted_keywords when english_keywords is empty and
\* that text has an English keyword line.
C12_EmptyIsInvalid ==
    [][/\ EmptyListsAreInvalid
       /\ (ValidatorRan /\ ~state.error /\ ~TruthyList(state'.english_keywords)) =>
              /\ state'.validation_result = MsgNoKeywords
              /\ state'.need_correction
              /\ state'.current_step = "correct"
              /\ pc' = "corrector"]_vars

C12_Witness ==
    /\ last = "validator"
    /\ ~state.error
    /\ state.english_keywords = <<>>
    /\ state.paper_source = "ACL"
    /\ state.need_correction
    /\ state.current_step = "correct"
    /\ pc = "corrector"

UnconstrainedSource == state.paper_source \notin {"ArXiv", "IEEE", "SciHub"}

\* C13 as stated: under a source other than ArXiv, IEEE and SciHub every
\* validation returns valid and the run never enters the Corrector.
C13_PassThrough_AsStated ==
    UnconstrainedSource =>
        /\ pc # "corrector"
        /\ corrector_calls = 0
        /\ (last = "validator" /\ ~state.error) => state.validation_result = MsgOk

\* C13 amended: under such a source every non-empty list is valid whatever
\* its keywords look like, and the run enters the Corrector only with an empty
\* list.
C13_PassThrough ==
    [][UnconstrainedSource =>
          /\ (ValidatorRan /\ ~state.error /\ TruthyList(state'.english_keywords)) =>
                 /\ state'.validation_result = MsgOk
                 /\ ~state'.need_correction
                 /\ state'.current_step = "complete"
                 /\ pc' = "END"
          /\ pc' = "corrector" => ~TruthyList(state'.english_keywords)]_vars

C13_Witness ==
    /\ state.paper_source = "Google Scholar"
    /\ pc = "END"
    /\ ~state.error
    /\ state.english_keywords = <<kPhrase, kLLM>>
    /\ state.validation_result = MsgOk
    /\ corrector_calls = 0

ValidatorWrites == {"validation_result", "need_correction", "current_step"}

\* C14 as stated: a Validator step on a state without error calls no model,
\* changes no field but validation_result, need_correction and current_step,
\* and sets need_correction to "not valid" and current_step accordingly.
C14_ValidatorFrame_AsStated ==
    [][(ValidatorRan /\ ~state.error) =>
          LET valid == _validate_keywords(state.english_keywords, state.paper_source).is_valid
          IN  /\ llm_calls' = llm_calls
              /\ \A f \in DOMAIN state \ ValidatorWrites : state'[f] = state[f]
              /\ state'.need_correction = ~valid
              /\ state'.current_step = IF valid THEN "complete" ELSE "correct"]_vars

\* C14 amended: english_keywords may change too, in one case only: the state
\* has no error, its english_keywords is empty and extracted_keywords has an
\* English keyword line, from which the list is read back; validity is that
\* of the resulting list.
C14_ValidatorFrame ==
    [][ValidatorRan =>
          /\ llm_calls' = llm_calls
          /\ \A f \in DOMAIN state \ (ValidatorWrites \cup {"english_keywords"}) :
                 state'[f] = state[f]
          /\ state'.english_keywords # state.english_keywords =>
                 /\ ~state.error
                 /\ ~TruthyList(state.english_keywords)
                 /\ TruthyText(state.extracted_keywords)
                 /\ has_english_label(state.extracted_keywords)
                 /\ state'.english_keywords = legacy_english_keywords(state.extracted_keywords)
          /\ ~state.error =>
                 LET valid == _validate_keywords(state'.english_keywords,
                                                 state.paper_source).is_valid
                 IN  /\ state'.need_correction = ~valid
                     /\ state'.current_step = IF valid THEN "complete" ELSE "correct"]_vars

C14_Witness ==
    /\ last = "validator"
    /\ ~state.error
    /\ state.extracted_keywords = RespTwoLabels
    /\ state.english_keywords = <<kLLM>>
    /\ state.chinese_keywords = <<>>
    /\ state.validation_result = MsgOk
    /\ llm_calls = 1

\* the model call of this step returned / raised
CallReturned == llm_calls' = llm_calls + 1 /\ ~llm_raised'
CallRaised == llm_calls' = llm_calls + 1 /\ llm_raised'

CorrectorWrites ==
    {"chinese_keywords", "english_keywords", "extracted_keywords", "validation_result",
     "need_correction", "retry_count", "current_step"}

\* C16: a Corrector step on a state with need_correction whose model call
\* returns replaces the keywords by those parsed from the response, marks the
\* validation message as corrected, clears need_correction, adds one to
\* retry_count, moves current_step to validate and leaves error alone.
C16_CorrectorSuccess ==
    [][(CorrectorRan /\ state.need_correction /\ CallReturned) =>
          LET response == state'.extracted_keywords
          IN  /\ response \in Responses
              /\ state'.chinese_keywords = _parse_keywords(response).chinese
              /\ state'.english_keywords = _parse_keywords(response).english
              /\ response = RespAbbrev =>
                     /\ state'.chinese_keywords = <<kZh, kZh>>
                     /\ state'.english_keywords = <<kLLM, kUpper6>>
              /\ state'.validation_result = MsgCorrected
              /\ ~state'.need_correction
              /\ state'.retry_count = state.retry_count + 1
              /\ state'.current_step = "validate"
              /\ state'.error = state.error
              /\ \A f \in DOMAIN state \ CorrectorWrites : state'[f] = state[f]]_vars

C16_Witness ==
    /\ last = "corrector"
    /\ ~llm_raised
    /\ ~state.error
    /\ state.extracted_keywords = RespAbbrev
    /\ state.english_keywords = <<kLLM, kUpper6>>
    /\ state.validation_result = MsgCorrected
    /\ state.retry_count = 2
    /\ state.current_step = "validate"

\* C17: a Corrector step whose model call raises returns a state with error
\* set, the correction-failed message and current_step complete, keywords and
\* retry_count as they were; from then on no Corrector step and no model
\* call happens and the next Validator step ends the run.
C17_CorrectorFailure ==
    [][/\ (CorrectorRan /\ CallRaised) =>
              /\ pc' = "validator"
              /\ state'.error
              /\ state'.error_message = ErrCorrect
              /\ state'.current_step = "complete"
              /\ \A f \in DOMAIN state \ {"error", "error_message", "current_step"} :
                     state'[f] = state[f]
       /\ (state.error /\ state.error_message = ErrCorrect) =>
              /\ ~CorrectorRan
              /\ pc # "corrector" /\ pc' # "corrector"
              /\ llm_calls' = llm_calls
              /\ corrector_calls' = corrector_calls
              /\ ValidatorRan => pc' = "END"]_vars

C17_Witness ==
    /\ pc = "END"
    /\ llm_raised
    /\ state.error
    /\ state.error_message = ErrCorrect
    /\ state.retry_count = 1
    /\ corrector_calls = 2
    /\ llm_calls = 3
    /\ TruthyList(state.english_keywords)

\* C18: an Extractor step whose model call raises returns a state with error
\* set, the extraction-failed message and current_step complete; both keyword
\* lists are as in the initial state, without a value.
C18_ExtractorFailure ==
    [][(SummarizerRan /\ CallRaised) =>
          /\ pc' = "validator"
          /\ state'.error
          /\ state'.error_message = ErrExtract
          /\ state'.current_step = "complete"
          /\ state'.chinese_keywords = NoneList
          /\ state'.english_keywords = NoneList
          /\ \A f \in DOMAIN state \ {"error", "error_message", "current_step"} :
                 state'[f] = state[f]]_vars

C18_Witness ==
    /\ last = "summarizer"
    /\ llm_raised
    /\ llm_calls = 1
    /\ state.error
    /\ state.error_message = ErrExtract
    /\ state.current_step = "complete"
    /\ state.english_keywords = NoneList

\* the state with its retry_count replaced
WithRetryCount(s, n) == [s EXCEPT !.retry_count = n]

\* a value of retry_count past the configured ceiling
PastCeiling == state.retry_count + ConfiguredRecursionLimit

\* the outcome of the model call of this step, read back from its effects
TakenOutcome ==
    [raised |-> llm_raised',
     text |-> IF llm_raised' THEN <<>> ELSE state'.extracted_keywords]

\* the node of this step, run on the same state with another retry_count,
\* does the same and takes the same edge
RetryCountIsNotRead ==
    /\ SummarizerRan =>
           LET q == extractor_process(WithRetryCount(state, PastCeiling), TakenOutcome)
           IN  /\ q.state = WithRetryCount(state', PastCeiling)
               /\ q.called = (llm_calls' # llm_calls)
    /\ ValidatorRan =>
           LET q == validator_process(WithRetryCount(state, PastCeiling))
           IN  /\ q = WithRetryCount(state', PastCeiling)
               /\ should_correct(q) = pc'
    /\ CorrectorRan =>
           LET q == corrector_process(WithRetryCount(state, PastCeiling), TakenOutcome)
           IN  /\ q.state = WithRetryCount(state',
                                 PastCeiling + (state'.retry_count - state.retry_count))
               /\ q.called = (llm_calls' # llm_calls)

\* C20: retry_count is 0 before the first step, never decreases, changes in
\* Corrector steps only, and no node and no edge behaves differently for a
\* different retry_count.
C20_RetryCountDiscipline ==
    [][/\ steps = 0 => state.retry_count = 0
       /\ state'.retry_count >= state.retry_count
       /\ state'.retry_count # state.retry_count =>
              (CorrectorRan /\ state'.retry_count = state.retry_count + 1)
       /\ (SummarizerRan \/ ValidatorRan) => state'.retry_count = state.retry_count
       /\ RetryCountIsNotRead]_vars

C20_Witness ==
    /\ last = "validator"
    /\ pc = "corrector"
    /\ state.retry_count > ConfiguredRecursionLimit
    /\ state.need_correction

\* C21: current_step is extract before the first step, validate when the
\* Validator is the node to run next, correct when the Corrector is, and
\* complete exactly when the run has ended.
C21_CurrentStepConsistency ==
    /\ pc = "summarizer" => state.current_step = "extract"
    /\ pc = "validator" => state.current_step = "validate"
    /\ pc = "corrector" => state.current_step = "correct"
    /\ state.current_step = "complete" <=> Halted

\* C22: no step changes messages or paper_source, and the Corrector called
\* where it has nothing to correct returns them as they are.
C22_ImmutableInputs ==
    [][/\ state'.messages = state.messages
       /\ state'.paper_source = state.paper_source
       /\ ~state.need_correction =>
              \A o \in LlmOutcomes :
                  LET r == corrector_process(state, o).state
                  IN  r.messages = state.messages /\ r.paper_source = state.paper_source]_vars

C22_Witness ==
    /\ pc = "END"
    /\ state.messages = <<"need">>
    /\ state.paper_source = "IEEE"
    /\ corrector_calls = 3
    /\ state.error
    /\ state.error_message = ErrCorrect

\* C23: the node after a Corrector step is the Validator, whatever the
\* Corrector returned; a run ends at END only out of a Validator step, and
\* without error its keywords are the ones that step found valid.
C23_CorrectedIsRevalidated ==
    [][/\ CorrectorRan => pc' = "validator"
       /\ (pc' = "END" /\ pc # "END") =>
              /\ ValidatorRan
              /\ ~state'.error =>
                     /\ _validate_keywords(state'.english_keywords,
                                            state'.paper_source).is_valid
                     /\ state'.validation_result = MsgOk]_vars

C23_Witness ==
    /\ pc = "END"
    /\ last = "validator"
    /\ ~state.error
    /\ corrector_calls = 1
    /\ state.retry_count = 1
    /\ state.paper_source = "ArXiv"
    /\ state.extracted_keywords = RespAbbrev
    /\ state.validation_result = MsgOk

\* C24: without user keywords, when the first extraction calls the model
\* and yields keywords that meet the contract of the source, the Validator
\* step after it ends the run: complete, no error, no need_correction,
\* retry_count 0, one model call, no Corrector step.
C24_OnePassSuccess ==
    [][(/\ ValidatorRan
        /\ steps = 1
        /\ llm_calls = 1
        /\ ~state.error
        /\ ~TruthyList(state.user_keywords)
        /\ _validate_keywords(state.english_keywords, state.paper_source).is_valid) =>
          /\ pc' = "END"
          /\ state'.current_step = "complete"
          /\ ~state'.error
          /\ ~state'.need_correction
          /\ state'.retry_count = 0
          /\ state'.english_keywords = state.english_keywords
          /\ llm_calls' = 1
          /\ corrector_calls' = 0]_vars

C24_Witness ==
    /\ pc = "END"
    /\ steps = 2
    /\ llm_calls = 1
    /\ corrector_calls = 0
    /\ ~state.error
    /\ ~state.need_correction
    /\ state.retry_count = 0
    /\ state.current_step = "complete"
    /\ state.paper_source = "SciHub"
    /\ state.extracted_keywords = RespFull

-----------------------------------------------------------------------------
(* Properties of _validate_keywords *)

\* the keywords of a list that fail a test, in order
Failing(kws, Passes(_)) == SelectSeq(kws, LAMBDA kw : ~Passes(kw))

\* the abbreviation test on the keyword as given
AbbrevAsGiven(kw) ==
    \/ Len(kw) <= 5
    \/ (/\ \E i \in 1..Len(kw) : kw[i] \in UpperChars
        /\ ~\E i \in 1..Len(kw) : kw[i] \in LowerChars)

\* the abbreviation test on the keyword without its surrounding white space
AbbrevTrimmed(kw) == AbbrevAsGiven(strip(kw))

AbbrevCase ==
    /\ vout.done
    /\ vin.paper_source \in {"ArXiv", "IEEE"}
    /\ TruthyList(vin.english_keywords)

\* C10 as stated: under ArXiv/IEEE a non-empty list is valid iff every keyword
\* has length <= 5 or is all upper case, and the failure message names
\* exactly the keywords failing that test.
C10_AbbreviationContract_AsStated ==
    AbbrevCase =>
        /\ vout.is_valid <=>
               \A i \in 1..Len(vin.english_keywords) : AbbrevAsGiven(vin.english_keywords[i])
        /\ ~vout.is_valid =>
               vout.message = MsgNotAbbrev
                   \o join(<<Comma, SP>>, Failing(vin.english_keywords, AbbrevAsGiven))

\* C10 amended: the length is that of the keyword with leading and trailing
\* white space removed.
C10_AbbreviationContract ==
    AbbrevCase =>
        /\ vout.is_valid <=>
               \A i \in 1..Len(vin.english_keywords) : AbbrevTrimmed(vin.english_keywords[i])
        /\ ~vout.is_valid =>
               vout.message = MsgNotAbbrev
                   \o join(<<Comma, SP>>, Failing(vin.english_keywords, AbbrevTrimmed))

C10_Witness ==
    /\ vout.done
    /\ vin.paper_source = "ArXiv"
    /\ vin.english_keywords = <<kPhrase, kLLM>>
    /\ ~vout.is_valid
    /\ vout.message = MsgNotAbbrev \o kPhrase

\* more than one word: white space with a word on either side
MultiWord(kw) ==
    \E i, j, k \in 1..Len(kw) :
        i < j /\ j < k /\ ~IsSpace(kw[i]) /\ IsSpace(kw[j]) /\ ~IsSpace(kw[k])

AllUpper(kw) ==
    /\ \E i \in 1..Len(kw) : kw[i] \in UpperChars
    /\ ~\E i \in 1..Len(kw) : kw[i] \in LowerChars

\* the full-phrase test on the keyword as given
FullAsGiven(kw) == MultiWord(kw) \/ (Len(kw) > 5 /\ ~AllUpper(kw))

\* the full-phrase test on the keyword without its surrounding white space
FullTrimmed(kw) == FullAsGiven(strip(kw))

FullCase ==
    /\ vout.done
    /\ vin.paper_source = "SciHub"
    /\ TruthyList(vin.english_keywords)

\* C11 as stated: under SciHub a non-empty list is valid iff every keyword
\* has more than one word or has length > 5 and is not all upper case, and
\* the failure message names exactly the keywords failing that test.
C11_FullPhraseContract_AsStated ==
    FullCase =>
        /\ vout.is_valid <=>
               \A i \in 1..Len(vin.english_keywords) : FullAsGiven(vin.english_keywords[i])
        /\ ~vout.is_valid =>
               vout.message = MsgNotFull
                   \o join(<<Comma, SP>>, Failing(vin.english_keywords, FullAsGiven))

\* C11 amended: the length is that of the keyword with leading and trailing
\* white space removed.
C11_FullPhraseContract ==
    FullCase =>
        /\ vout.is_valid <=>
               \A i \in 1..Len(vin.english_keywords) : FullTrimmed(vin.english_keywords[i])
        /\ ~vout.is_valid =>
               vout.message = MsgNotFull
                   \o join(<<Comma, SP>>, Failing(vin.english_keywords, FullTrimmed))

C11_Witness ==
    /\ vout.done
    /\ vin.paper_source = "SciHub"
    /\ vin.english_keywords = <<kLLM, kPhrase>>
    /\ ~vout.is_valid
    /\ vout.message = MsgNotFull \o kLLM

-----------------------------------------------------------------------------
(* Properties of the corrector called on its own *)

DirectCorrectorCalled == pc = "direct-call" /\ pc' = "returned"
DirectCorrectionNodeCalled == lab.pc = "direct-call" /\ lab'.pc # "direct-call"

\* C15: called on a state whose need_correction is false the Corrector
\* returns the state as it is and calls no model; so does correction_node.
C15_CorrectorGuard ==
    [][/\ (DirectCorrectorCalled /\ ~state.need_correction) =>
              /\ state' = state
              /\ llm_calls' = llm_calls
       /\ (DirectCorrectionNodeCalled /\ ~lab.state.need_correction) =>
              /\ lab'.state = lab.state
              /\ lab'.llm_calls = lab.llm_calls
              /\ lab'.pc = "returned"]_vars

C15_Witness ==
    /\ pc = "returned"
    /\ last = "corrector"
    /\ llm_calls = 0
    /\ ~state.need_correction
    /\ state.validation_result = MsgCorrected
    /\ state.retry_count = 1
    /\ state.current_step = "validate"

-----------------------------------------------------------------------------
(* Properties of the run over the node functions of multi_agent.py *)

\* C19: in a run started without a user message the extraction sets error,
\* no model call is made, and the run ends without reaching the corrector.
C19_InputError ==
    (lab.steps >= 1 /\ lab_no_messages(lab.state)) =>
        /\ lab.state.error
        /\ lab.llm_calls = 0
        /\ lab.pc \notin {"corrector", "raised"}

-----------------------------------------------------------------------------
(* Properties of one call of PaperScorerAgent.process *)

\* the call returned the scores parsed from an answer of the model
ScoresParsed ==
    /\ scoring.phase = "returned"
    /\ scoring.state.paper_abstract = <<"abstract">>
    /\ ~scoring.outcome.raised

\* n brought into lo..hi
Clamped(n, lo, hi) == IF n < lo THEN lo ELSE IF n > hi THEN hi ELSE n

\* C25: when the answer declares a total, a keyword score and a semantic
\* score, the two parts are returned clamped into 1..10, and the total
\* returned is their sum if the declared total clamped into 1..20 differs
\* from that sum by more than 2, and the clamped declared total otherwise;
\* an answer declaring 20/3/3 yields 6/3/3.
C25_ScoreOverride ==
    (ScoresParsed /\ \A n \in 1..3 : scoring.declared[n] # Undeclared) =>
        LET total == Clamped(scoring.declared[1], 1, 20)
            keyword == Clamped(scoring.declared[2], 1, 10)
            semantic == Clamped(scoring.declared[3], 1, 10)
            far == (total - (keyword + semantic) > 2) \/ ((keyword + semantic) - total > 2)
        IN  /\ scoring.state.keyword_score = keyword
            /\ scoring.state.semantic_score = semantic
            /\ scoring.state.total_score = IF far THEN keyword + semantic ELSE total
            /\ scoring.declared = <<20, 3, 3>> =>
                   /\ scoring.state.total_score = 6
                   /\ scoring.state.keyword_score = 3
                   /\ scoring.state.semantic_score = 3

\* the sum overrides a declared total of 20, and a declared total two
\* above the sum is kept
C25_Witness ==
    /\ ScoresParsed
    /\ \/ scoring.declared = <<20, 3, 3>> /\ scoring.state.total_score = 6
       \/ scoring.declared = <<8, 3, 3>> /\ scoring.state.total_score = 8

\* C26: after every call of process, whatever the answer of the model,
\* total_score is in 0..20 and keyword_score and semantic_score are in
\* 0..10; a part the answer declares is returned clamped into the range,
\* whatever the other labels declare, and a part it does not declare is
\* returned as 5.
C26_ScoreRanges ==
    /\ scoring.state.total_score \in 0..20
    /\ scoring.state.keyword_score \in 0..10
    /\ scoring.state.semantic_score \in 0..10
    /\ ScoresParsed =>
           /\ scoring.state.keyword_score =
                  IF scoring.declared[2] = Undeclared THEN 5
                  ELSE Clamped(scoring.declared[2], 1, 10)
           /\ scoring.state.semantic_score =
                  IF scoring.declared[3] = Undeclared THEN 5
                  ELSE Clamped(scoring.declared[3], 1, 10)

\* an answer declaring integers past all three ranges, the total missing
\* from another
C26_Witness ==
    /\ ScoresParsed
    /\ \/ /\ scoring.declared = <<MaxDeclaredTotal, MaxDeclaredPart, MaxDeclaredPart>>
          /\ scoring.state.total_score = 20
          /\ scoring.state.keyword_score = 10
       \/ /\ scoring.declared = <<Undeclared, MaxDeclaredPart, 0>>
          /\ scoring.state.semantic_score = 1

\* C27: a call of process with an empty abstract sets the three scores to
\* 0 and the reasoning to the message of the missing abstract, makes no
\* model call and leaves requirement, abstract and keywords as they were.
C27_EmptyAbstract ==
    [][(scoring.phase = "call" /\ scoring.state.paper_abstract = <<>>) =>
           /\ scoring'.phase = "returned"
           /\ scoring'.state.total_score = 0
           /\ scoring'.state.keyword_score = 0
           /\ scoring'.state.semantic_score = 0
           /\ scoring'.state.reasoning = ReasonNoAbstract
           /\ scoring'.llm_calls = scoring.llm_calls
           /\ scoring'.state.user_requirement = scoring.state.user_requirement
           /\ scoring'.state.paper_abstract = scoring.state.paper_abstract
           /\ scoring'.state.keywords = scoring.state.keywords]_vars

C27_Witness ==
    /\ scoring.phase = "returned"
    /\ scoring.state.paper_abstract = <<>>
    /\ scoring.state.reasoning = ReasonNoAbstract
    /\ scoring.state.keywords = <<kLLM>>
    /\ scoring.llm_calls = 0

-----------------------------------------------------------------------------
(* Properties of one call of PaperScorerAgent.score_papers *)

\* the paper of the result that was papers[i] of the input
Ranked(i) == CHOOSE p \in 1..Len(batch.result) : batch.result[p].id = i

\* papers[i] has a text to score
HasAbstract(i) ==
    \/ batch.papers[i].abstract \notin {AbsentText, <<>>}
    \/ batch.papers[i].abstract = AbsentText /\ batch.papers[i].summary # AbsentText

\* C28: score_papers returns every paper of the input; a paper whose model
\* call raised has the three scores 0 and the failure reasoning, and every
\* paper whose model call returned has scores of at least 1, whether it
\* comes before or after a paper whose call raised.
C28_ScorerFailure ==
    batch.phase = "returned" =>
        /\ Len(batch.result) = Len(batch.papers)
        /\ \A i \in 1..Len(batch.papers) :
               /\ \E p \in 1..Len(batch.result) : batch.result[p].id = i
               /\ (HasAbstract(i) /\ batch.outcomes[i].raised) =>
                      /\ batch.result[Ranked(i)].score = 0
                      /\ batch.result[Ranked(i)].keyword_score = 0
                      /\ batch.result[Ranked(i)].semantic_score = 0
                      /\ batch.result[Ranked(i)].score_reasoning = ReasonFailed
               /\ (HasAbstract(i) /\ ~batch.outcomes[i].raised) =>
                      /\ batch.result[Ranked(i)].score >= 1
                      /\ batch.result[Ranked(i)].keyword_score >= 1
                      /\ batch.result[Ranked(i)].semantic_score >= 1

\* the call for the second of three papers raised, the two others are scored
C28_Witness ==
    /\ batch.phase = "returned"
    /\ Len(batch.papers) = 3
    /\ \A i \in 1..3 : HasAbstract(i)
    /\ batch.outcomes[2].raised
    /\ batch.result[3].id = 2
    /\ batch.result[3].score_reasoning = ReasonFailed
    /\ batch.result[1].score = 18
    /\ batch.result[2].score = 6
    /\ batch.llm_calls = 3

\* C29: the list score_papers returns holds the papers of the input, each
\* once, in an order of non-increasing score in which papers of equal score
\* keep the order of the input; the scores of a paper are those process
\* gives for a fresh state of this paper, the requirement and the keywords.
C29_BatchRanking ==
    batch.phase = "returned" =>
        /\ Len(batch.result) = Len(batch.papers)
        /\ \A i \in 1..Len(batch.papers) :
               \E p \in 1..Len(batch.result) : batch.result[p].id = i
        /\ \A p, q \in 1..Len(batch.result) :
               p < q =>
                   /\ batch.result[p].score >= batch.result[q].score
                   /\ batch.result[p].score = batch.result[q].score =>
                          batch.result[p].id < batch.result[q].id
        /\ \A p \in 1..Len(batch.result) :
               LET paper == batch.papers[batch.result[p].id]
                   alone == scorer_process(
                                PaperScoringState(batch.user_requirement,
                                                  paper_abstract_of(paper), batch.keywords),
                                batch.outcomes[batch.result[p].id]).state
               IN  /\ batch.result[p].abstract = paper.abstract
                   /\ batch.result[p].summary = paper.summary
                   /\ batch.result[p].score = alone.total_score
                   /\ batch.result[p].keyword_score = alone.keyword_score
                   /\ batch.result[p].semantic_score = alone.semantic_score
                   /\ batch.result[p].score_reasoning = alone.reasoning

\* the last paper of the input ranks first, the two before it tie
C29_Witness ==
    /\ batch.phase = "returned"
    /\ Len(batch.result) = 3
    /\ batch.result[1].id = 3
    /\ batch.result[2].id = 1
    /\ batch.result[3].id = 2
    /\ batch.result[1].score = 18
    /\ batch.result[2].score = 6
    /\ batch.result[3].score = 6

-----------------------------------------------------------------------------
(* Properties of remove_duplicates *)

\* C30: for a list of articles and an allowed source, remove_duplicates
\* applied to the list it returned returns that list again.
C30_DedupIdempotence ==
    (dedup.calls = 2 /\ dedup.data_source \in {"ArXiv", "IEEE", "SciHub"}) =>
        /\ ~dedup.twice.raised
        /\ dedup.twice.articles = dedup.once.articles

\* the first call dropped an article and kept two
C30_Witness ==
    /\ dedup.calls = 2
    /\ dedup.phase = "returned"
    /\ Len(dedup.articles) = 3
    /\ Len(dedup.once.articles) = 2
    /\ dedup.twice.articles = dedup.once.articles

\* the positions of the input whose identifier no earlier position holds
FirstOfTheirId ==
    {i \in 1..Len(dedup.articles) :
        \A j \in 1..(i - 1) : dedup.articles[j].ident # dedup.articles[i].ident}

\* C31: when remove_duplicates returns for an allowed source, the list it
\* returns holds, in the order of the input, the articles that are the
\* first of the input with their identifier, and no other; for ArXiv and
\* SciHub it returns for every list.
C31_KeepsFirstOccurrence ==
    (dedup.calls >= 1 /\ dedup.data_source \in {"ArXiv", "IEEE", "SciHub"}) =>
        /\ dedup.data_source \in {"ArXiv", "SciHub"} => ~dedup.once.raised
        /\ ~dedup.once.raised =>
               /\ Len(dedup.once.articles) = Cardinality(FirstOfTheirId)
               /\ \A i \in FirstOfTheirId :
                      dedup.once.articles[Cardinality({j \in FirstOfTheirId : j <= i})]
                          = dedup.articles[i]

\* the third article repeats the identifier of the first under another title
C31_Witness ==
    /\ dedup.calls >= 1
    /\ dedup.data_source = "IEEE"
    /\ dedup.articles = <<[ident |-> "a", title |-> "t1"], [ident |-> "b", title |-> "t1"],
                          [ident |-> "a", title |-> "t2"]>>
    /\ dedup.once.articles = <<[ident |-> "a", title |-> "t1"], [ident |-> "b", title |-> "t1"]>>

\* C32: remove_duplicates called with a source other than ArXiv, IEEE and
\* SciHub raises ValueError and returns no list, for the empty list as for
\* any other.
C32_UnknownSource ==
    (dedup.calls >= 1 /\ dedup.data_source \notin {"ArXiv", "IEEE", "SciHub"}) =>
        /\ dedup.once.raised
        /\ dedup.once.exception = "ValueError"
        /\ dedup.once.articles = <<>>
        /\ dedup.phase = "raised"
        /\ dedup.calls = 1

\* the call with the empty list raised
C32_Witness ==
    /\ dedup.calls = 1
    /\ dedup.articles = <<>>
    /\ dedup.data_source = "arxiv"
    /\ dedup.once.exception = "ValueError"

-----------------------------------------------------------------------------
(* Properties of two interleaved invocations of the workflow *)

-----------------------------------------------------------------------------
(* Further properties of the workflow run *)

\* the response holds no line labelled as the English keywords
NoEnglishLine(text) == text # NoneText /\ \A k \in 1..Len(text) : text[k] # EN

\* C34: when the model answers the Extractor without a line of English
\* keywords, the Extractor returns english_keywords = [] with error false
\* and current_step 'validate'; the Validator step after it sets
\* need_correction, leaves error false, and the run goes to the Corrector.
C34_MissingKeywordLine ==
    [][/\ (SummarizerRan /\ CallReturned /\ NoEnglishLine(state'.extracted_keywords)) =>
              /\ state'.english_keywords = <<>>
              /\ ~state'.error
              /\ state'.current_step = "validate"
              /\ pc' = "validator"
       /\ (/\ ValidatorRan
           /\ last = "summarizer"
           /\ llm_calls = 1
           /\ ~llm_raised
           /\ NoEnglishLine(state.extracted_keywords)) =>
              /\ state'.need_correction
              /\ ~state'.error
              /\ pc' = "corrector"]_vars

\* the run is at the Corrector after an answer without English keywords
C34_Witness ==
    /\ pc = "corrector"
    /\ steps = 2
    /\ llm_calls = 1
    /\ state.extracted_keywords = RespNoEnglish
    /\ state.english_keywords = <<>>
    /\ state.need_correction
    /\ ~state.error

\* C35 as stated: a run whose user keywords are non-empty and meet the
\* contract of the source ends without a model call, with the user's list
\* as english_keywords, error false and retry_count 0.
C35_BypassEndToEnd_AsStated ==
    (/\ pc \in {"END", "raised"}
     /\ TruthyList(state.user_keywords)
     /\ _validate_keywords(state.user_keywords, state.paper_source).is_valid) =>
        /\ pc = "END"
        /\ llm_calls = 0
        /\ state.english_keywords = state.user_keywords
        /\ ~state.error
        /\ state.retry_count = 0

\* C35: a run that has a user message and whose user keywords are
\* non-empty and meet the contract of the source ends without a model call,
\* with the user's list as english_keywords, error false and retry_count 0.
C35_BypassEndToEnd ==
    (/\ pc \in {"END", "raised"}
     /\ state.messages # <<>>
     /\ TruthyList(state.user_keywords)
     /\ _validate_keywords(state.user_keywords, state.paper_source).is_valid) =>
        /\ pc = "END"
        /\ steps = 2
        /\ llm_calls = 0
        /\ corrector_calls = 0
        /\ state.english_keywords = state.user_keywords
        /\ ~state.error
        /\ state.retry_count = 0

\* a run under SciHub ended with the two phrases the user supplied
C35_Witness ==
    /\ pc = "END"
    /\ llm_calls = 0
    /\ state.messages # <<>>
    /\ state.paper_source = "SciHub"
    /\ state.user_keywords = <<kPhrase, kPhrase>>
    /\ state.english_keywords = <<kPhrase, kPhrase>>
    /\ ~state.error
    /\ state.retry_count = 0

\* the Corrector steps of the run so far whose model call returned: every
\* Corrector step of a run calls the model, and only the latest can have
\* raised, which leaves the error of the Corrector in the state
ReturnedCorrections(s, calls) ==
    IF s.error /\ s.error_message = ErrCorrect THEN calls - 1 ELSE calls

\* C36: in every state of a run retry_count is the number of Corrector
\* steps whose model call returned: a Corrector step whose call returned
\* adds 1, a Corrector step whose call raised or that made no call and
\* every other step leave it as it was; the model calls made so far are at
\* most retry_count + 2.
C36_RetryCountCounts ==
    [][/\ state.retry_count = ReturnedCorrections(state, corrector_calls)
       /\ state'.retry_count = ReturnedCorrections(state', corrector_calls')
       /\ (CorrectorRan /\ CallReturned) => state'.retry_count = state.retry_count + 1
       /\ ~(CorrectorRan /\ CallReturned) => state'.retry_count = state.retry_count
       /\ llm_calls <= state.retry_count + 2
       /\ llm_calls' <= state'.retry_count + 2]_vars

\* an extraction, a correction that returned and a correction that raised
C36_Witness ==
    /\ state.error
    /\ state.error_message = ErrCorrect
    /\ state.retry_count = 1
    /\ corrector_calls = 2
    /\ llm_calls = 3

-----------------------------------------------------------------------------
(* Further properties of the scorer and of remove_duplicates *)

\* C37: the scores parsed from an answer of the model are coherent: the
\* total is in 1..20 and differs from the sum of the parts by at most 2,
\* the parts are in 1..10; the total is computed from 10 for a missing
\* total, 5 for a missing keyword score and 5 for a missing semantic score,
\* these values taking the place of the declared ones in the override rule.
C37_ScoreCoherence ==
    ScoresParsed =>
        LET total == IF scoring.declared[1] = Undeclared THEN 10
                     ELSE Clamped(scoring.declared[1], 1, 20)
            keyword == IF scoring.declared[2] = Undeclared THEN 5
                       ELSE Clamped(scoring.declared[2], 1, 10)
            semantic == IF scoring.declared[3] = Undeclared THEN 5
                        ELSE Clamped(scoring.declared[3], 1, 10)
            gap == scoring.state.total_score
                       - (scoring.state.keyword_score + scoring.state.semantic_score)
        IN  /\ scoring.state.total_score \in 1..20
            /\ scoring.state.keyword_score \in 1..10
            /\ scoring.state.semantic_score \in 1..10
            /\ gap \in (0 - 2)..2
            /\ scoring.state.keyword_score = keyword
            /\ scoring.state.semantic_score = semantic
            /\ scoring.state.total_score =
                   IF total - (keyword + semantic) \in (0 - 2)..2 THEN total
                   ELSE keyword + semantic

\* the default total 10 is overridden by the sum of two declared parts, and
\* an answer without any label yields 10/5/5
C37_Witness ==
    /\ ScoresParsed
    /\ \/ /\ scoring.declared = <<Undeclared, 1, 1>>
          /\ scoring.state.total_score = 2
       \/ /\ scoring.declared = <<Undeclared, Undeclared, Undeclared>>
          /\ scoring.state.total_score = 10
          /\ scoring.state.keyword_score = 5

\* C38: score_papers leaves the papers it is given as they were and
\* returns one record for each of them, no paper left out or repeated; a
\* record has the fields of its paper with their values, and the fields
\* score, keyword_score, semantic_score and score_reasoning.
C38_BatchPermutation ==
    [][batch.phase = "call" =>
           /\ batch'.phase = "returned"
           /\ batch'.papers = batch.papers
           /\ Len(batch'.result) = Len(batch.papers)
           /\ \A i \in 1..Len(batch.papers) :
                  Cardinality({p \in 1..Len(batch'.result) : batch'.result[p].id = i}) = 1
           /\ \A p \in 1..Len(batch'.result) :
                  /\ DOMAIN batch'.result[p] =
                         DOMAIN batch.papers[batch'.result[p].id]
                             \cup {"score", "keyword_score", "semantic_score", "score_reasoning"}
                  /\ \A f \in DOMAIN batch.papers[batch'.result[p].id] :
                         batch'.result[p][f] = batch.papers[batch'.result[p].id][f]]_vars

\* three papers returned in another order than given, one of them with a
\* summary and no abstract, one with neither
C38_Witness ==
    /\ batch.phase = "returned"
    /\ Len(batch.papers) = 3
    /\ Len(batch.result) = 3
    /\ batch.result[1].id = 2
    /\ batch.result[1].abstract = AbsentText
    /\ batch.result[1].summary = <<"summary">>
    /\ batch.result[2].id = 3
    /\ batch.result[3].id = 1
    /\ batch.result[3].summary = AbsentText
    /\ batch.result[3].abstract = AbsentText

-----------------------------------------------------------------------------
(* Further properties of the format predicates *)

-----------------------------------------------------------------------------
(* Properties of MCPConfig *)

\* the configuration has neither 'command' nor 'url', or has 'command'
\* without an 'args' that is a list
Rejected(tool_config) ==
    \/ "command" \notin tool_config.keys /\ "url" \notin tool_config.keys
    \/ "command" \in tool_config.keys
           /\ ~("args" \in tool_config.keys /\ tool_config.args_is_list)

\* the stored configuration after the k-th call
ConfigAfter(k) == IF k < Len(mcp.log) THEN mcp.log[k + 1].before ELSE mcp.config

\* C40: add_tool with a configuration that has neither 'command' nor 'url',
\* or 'command' without a list-valued 'args', returns False with a message
\* of validate_tool_config and leaves the stored configuration as it was;
\* remove_tool of a name that is not stored returns False with its message
\* and leaves it as it was; after add_tool of a name that was not stored
\* and remove_tool of the same name the stored names are those before.
C40_RejectedOperations ==
    \A k \in 1..Len(mcp.log) :
        LET call == mcp.log[k]
        IN  /\ (call.op = "add" /\ Rejected(call.tool_config)) =>
                   /\ ~call.ok
                   /\ call.message \in {MsgNeedsCommandOrUrl(call.name),
                                         MsgNeedsArgs(call.name), MsgArgsNotList(call.name)}
                   /\ ConfigAfter(k) = call.before
            /\ (call.op = "remove" /\ call.name \notin call.before.names) =>
                   /\ ~call.ok
                   /\ call.message = MsgNotPresent(call.name)
                   /\ ConfigAfter(k) = call.before
            /\ (/\ k > 1
                /\ call.op = "remove"
                /\ mcp.log[k - 1].op = "add"
                /\ mcp.log[k - 1].name = call.name
                /\ call.name \notin mcp.log[k - 1].before.names) =>
                   ConfigAfter(k).names = mcp.log[k - 1].before.names

\* a rejected add_tool followed by a rejected remove_tool, or an accepted
\* add_tool of a new name followed by its remove_tool
C40_Witness ==
    /\ Len(mcp.log) = 2
    /\ mcp.log[1].op = "add"
    /\ mcp.log[1].name = "search"
    /\ mcp.log[2].op = "remove"
    /\ mcp.log[2].name = "search"
    /\ mcp.config = DEFAULT_CONFIG
    /\ \/ /\ mcp.log[1].tool_config = tool({"command"}, FALSE, NoneStr)
          /\ ~mcp.log[1].ok
          /\ ~mcp.log[2].ok
       \/ /\ mcp.log[1].ok
          /\ mcp.log[2].ok
          /\ mcp.log[2].before.entry["search"].transport = "sse"

====
